---- MODULE Spec2Model ----
(***************************************************************************)
(* Verification model of the Haiku UVC webcam driver.                      *)
(*                                                                         *)
(* Part 1 (specification Spec): the UVC payload deframer as a sequential   *)
(* object -- UVCDeframer::Write, UVCDeframer::Flush, SetExpectedFrameSize  *)
(* (through UVCCamDevice::AcceptVideoFrame) and the consumer's             *)
(* WaitFrame/GetFrame -- with the bytes of every packet and frame;         *)
(* specification SpecBacklog starts it with the ready queue nearly full.   *)
(*                                                                         *)
(* Part 2 (specifications SpecStream, SpecFallback, SpecFallbackFair): the *)
(* threads of a streaming session -- the data pump, the media node's       *)
(* control thread, the frame generator (delivery) thread and the USB       *)
(* roster thread -- with the device lock, the deframer's lock and each     *)
(* thread's position.                                                      *)
(*                                                                         *)
(* Part 3 (specifications SpecTransport, SpecTransportFair): the format    *)
(* and alternate negotiation of UVCCamDevice::StartTransfer, the pump      *)
(* loop's handling of failed transfers, the high-bandwidth detection and   *)
(* the packet counters behind the packet-loss evaluation.                  *)
(*                                                                         *)
(* Part 4 (specification SpecRecovery): the error histogram and the        *)
(* recovery recommendation of CamDevice::EvaluateErrorRecovery.            *)
(*                                                                         *)
(* Part 5 (specification SpecPool): the frame buffers as objects -- the    *)
(* pool of CamDeframer::AllocFrame and RecycleFrame, the frame being       *)
(* filled, the ready queue and the consumer's frame -- with the pump's     *)
(* Write, the consumer and Flush running as threads.                       *)
(*                                                                         *)
(* Part 6 (specification SpecAudio): the audio ring buffer -- the audio    *)
(* pump thread that fills it, ReadAudioData that empties it, and           *)
(* StartAudioTransfer and StopAudioTransfer that allocate and free it.     *)
(***************************************************************************)
EXTENDS Integers, Sequences, FiniteSets, TLC

VARIABLES
    \* ---- UVCDeframer / CamDeframer fields (part 1) ----
    fIsMJPEG,            \* UVCCamDevice::fIsMJPEG: the device offers MJPEG frames
    fID,                 \* UVCDeframer::fID
    fExpectedFrameSize,  \* UVCDeframer::fExpectedFrameSize (0 = marker-delimited)
    fFixedBuffer,        \* bytes 0 .. fFixedBufferPos-1 of UVCDeframer::fFixedBuffer
    fInputBuffer,        \* UVCDeframer::fInputBuffer (BMallocIO)
    fCurrentFrame,       \* CamDeframer::fCurrentFrame
    fFrames,             \* CamDeframer::fFrames, the ready queue, oldest first
    fFrameSem,           \* count of CamDeframer::fFrameSem
    fFIDChanges,         \* UVCDeframer::fFIDChanges
    fQueueOverflows,     \* UVCDeframer::fQueueOverflows
    fFramesCompleted,    \* UVCDeframer::fFramesCompleted
    nWrites,             \* number of Write calls made so far (bounds the run)
    accum,               \* history: payload bytes received since the last frame boundary
    last,                \* history: the last operation, its inputs and what it published
    \* ---- CamDevice / UVCCamDevice / VideoProducer fields (part 2) ----
    fVideoFrame,         \* CamDevice::fVideoFrame as <<width, height>>
    pc,                  \* position of every thread in its code
    op,                  \* the operation the control / delivery thread is executing
    fLocker,             \* CamDevice::fLocker (BLocker): owner and recursion count
    fDeframerLocker,     \* CamDeframer::fLocker: the thread holding it
    fTransferEnabled,    \* CamDevice::fTransferEnabled
    fPumpThread,         \* CamDevice::fPumpThread
    waitFor,             \* thread each caller of wait_for_thread is waiting for
    fIsoIn,              \* CamDevice::fIsoIn is non-NULL
    fCurrentVideoAlternate, \* UVCCamDevice::fCurrentVideoAlternate
    fDevice,             \* CamDevice::fDevice is non-NULL
    attached,            \* the camera is physically on the bus
    fRunning,            \* VideoProducer::fRunning
    fCurrentResolutionLevel,
    fTargetResolutionLevel,
    fFallbackActive,
    fFallbackWarningShown,
    fEvalWindowStartTime, \* 0, or 1 for "a window is open"
    fStableStartTime,     \* 0, or 1 for "stable since some time"
    fExpectedMJPEGMinSize,
    fSelectedResolutionIndex,
    hist,                \* history of part 2, see InitStream
    \* ---- negotiation, pump bookkeeping, packet counters (part 3) ----
    camera,              \* the device on the bus: its descriptors, see Cameras
    env,                 \* the WEBCAM_*_HIGH_BANDWIDTH environment variables
    fHighBandwidthTested,
    fHighBandwidthWorks,
    fHighBandwidthFailures,
    fUsingHighBandwidth,
    fMaxVideoFrameSize,
    fMaxPayloadTransferSize,
    fIsoMaxPacketSize,
    consecutiveFailures, \* local variable of CamDevice::DataPumpThread
    fPacketSuccessCount, \* the uint32 counters are held as the int32 with
    fPacketErrorCount,   \* the same bits: a negative value is one above 2^31
    fLastPacketSuccessCount,
    fLastPacketErrorCount,
    fEvalWindowPackets,
    fEvalWindowErrors,
    fErrorHistogram,     \* CamDevice::fErrorHistogram.total_transfers
    genFailures,         \* fHighBandwidthFailures as the delivery thread read it
    thist,               \* history of part 3, see InitTransportFields
    \* ---- error histogram and recovery recommendation (part 4) ----
    errorCounts,         \* the sum of fErrorHistogram.counts[1 ..]: transfers with an error
    consecutive_errors,  \* CamDevice::fErrorRecoveryConfig.consecutive_errors
    rlast,               \* history: the last recovery evaluation, see InitAuxFields
    \* ---- frame buffers as objects (part 5) ----
    fFramePool,          \* CamDeframer::fFramePool, the free list
    heap,                \* the CamFrame objects that exist (created and not deleted)
    f,                   \* the local CamFrame* f of the consumer, 0 for none
    \* ---- audio ring buffer (part 6) ----
    fAudioRingBuffer,    \* the bytes of the ring, <<>> for NULL
    fAudioRingHead,
    fAudioRingTail,
    fAudioTransferRunning,
    apump,               \* the audio pump thread: position and locals
    areader,             \* the thread in ReadAudioData: position and locals
    actl                 \* the thread in StopAudioTransfer: position

dfVars == <<fIsMJPEG, fID, fExpectedFrameSize, fFixedBuffer, fInputBuffer,
            fCurrentFrame, fFrames, fFrameSem, fFIDChanges, fQueueOverflows,
            fFramesCompleted, nWrites, accum, last>>

streamVars == <<pc, op, fLocker, fDeframerLocker, fTransferEnabled, fPumpThread,
                waitFor, fIsoIn, fCurrentVideoAlternate, fDevice, attached,
                fRunning, fCurrentResolutionLevel, fTargetResolutionLevel, fFallbackActive,
                fFallbackWarningShown, fEvalWindowStartTime, fStableStartTime,
                fExpectedMJPEGMinSize, fSelectedResolutionIndex, hist>>

hbVars == <<fHighBandwidthTested, fHighBandwidthWorks, fHighBandwidthFailures,
            fUsingHighBandwidth>>
probeVars == <<fMaxVideoFrameSize, fMaxPayloadTransferSize>>
countVars == <<fPacketSuccessCount, fPacketErrorCount, fLastPacketSuccessCount,
               fLastPacketErrorCount, fEvalWindowPackets, fEvalWindowErrors,
               fErrorHistogram>>
tpVars == <<camera, env, hbVars, probeVars, fIsoMaxPacketSize, consecutiveFailures,
            countVars, genFailures, thist,
            errorCounts, consecutive_errors, rlast, fFramePool, heap, f,
            fAudioRingBuffer, fAudioRingHead, fAudioRingTail,
            fAudioTransferRunning, apump, areader, actl>>

vars == <<dfVars, fVideoFrame, streamVars, tpVars>>

----------------------------------------------------------------------------
(* Program constants *)

MAXFRAMEBUF == 8
fFixedBufferSize == 4194304

(* Bounds of the model *)

MaxWrites == 3

(* The frame descriptors of the device as <<width, height>>, in list order:
   UVCCamDevice::fUncompressedFrames and UVCCamDevice::fMJPEGFrames.  The
   uncompressed frames are tiny so that whole frames of bytes can be
   followed through the deframer. *)
fUncompressedFrames == << <<2, 2>>, <<2, 1>> >>
fMJPEGFrames == << <<640, 480>>, <<320, 240>> >>
FrameList == IF fIsMJPEG THEN fMJPEGFrames ELSE fUncompressedFrames

(* Payloads and packets fed to Write.  Every payload has its own byte values,
   so the order of concatenation shows in a frame's content. *)
Payloads == { <<>>, <<17>>, <<34, 51>>, <<68, 85, 102>> }
FlagBytes == {0, 1, 2, 3}
GoodPackets == { <<2, fl>> \o p : fl \in FlagBytes, p \in Payloads }
                  \cup { <<3, fl, 0>> \o <<17>> : fl \in {0, 1} }
BadPackets == { <<>>, <<2>>, <<1, 0, 17>>, <<4, 0, 17>> }
Packets == GoodPackets \cup BadPackets

----------------------------------------------------------------------------
(* Frames *)

NULL == [isNull |-> TRUE, data |-> <<>>]
Frame(d) == [isNull |-> FALSE, data |-> d]

(* CamDeframer::AllocFrame: a frame reset to size 0 (from the pool or new). *)
AllocFrame == Frame(<<>>)

(* UVC payload header, UVCDeframer::Write lines 121-160.  buf is the packet,
   buf[1] the header length byte and buf[2] the flags byte. *)
HeaderValid(buf) == ~(Len(buf) < 2 \/ buf[1] < 2 \/ buf[1] > Len(buf))
PayloadSize(buf) == Len(buf) - buf[1]
Payload(buf) == SubSeq(buf, buf[1] + 1, Len(buf))
FidBit(buf) == buf[2] % 2
EofBit(buf) == ((buf[2] \div 2) % 2) # 0

B_ERROR == 0 - 1

Min(a, b) == IF a < b THEN a ELSE b

(* The YUY2 black pattern written by the padding loop, lines 332-338: each
   round copies the first min(remaining, 4) bytes of {00,80,00,80} at the
   current position. *)
padPattern == <<0, 128, 0, 128>>
RECURSIVE PadTo(_, _)
PadTo(b, n) ==
    IF Len(b) >= n THEN b
    ELSE PadTo(b \o SubSeq(padPattern, 1, Min(n - Len(b), 4)), n)

(* Lines 263-277: the number of payload bytes copied. *)
BytesToWrite(payloadSize, pos, expected) ==
    IF expected > 0
    THEN LET spaceLeft == IF pos < expected THEN expected - pos ELSE 0
         IN  IF payloadSize > spaceLeft THEN spaceLeft ELSE payloadSize
    ELSE payloadSize

(* Lines 279-298: the copy into the fixed buffer. *)
AppendFixed(fixed, payload, n) ==
    IF n > 0 /\ Len(fixed) + n <= fFixedBufferSize
    THEN fixed \o SubSeq(payload, 1, n)
    ELSE fixed

(* Lines 365-376: the bytes handed to the frame on completion. *)
FrameData(expected, fixed, input) ==
    IF expected > 0 THEN fixed ELSE input

----------------------------------------------------------------------------
(* A Write that takes every change of the FID bit for a frame boundary,
   header-only packets included, and publishes what it has accumulated. *)
C25_WriteToggleIsBoundary(buf) ==
    LET toggled == HeaderValid(buf) /\ FidBit(buf) # fID
    IN  [ret |-> Len(buf),
         pub |-> IF toggled THEN <<fInputBuffer>> ELSE <<>>,
         fID |-> IF toggled THEN FidBit(buf) ELSE fID,
         fFIDChanges |-> IF toggled THEN fFIDChanges + 1 ELSE fFIDChanges,
         fQueueOverflows |-> fQueueOverflows,
         fFramesCompleted |-> IF toggled THEN fFramesCompleted + 1 ELSE fFramesCompleted,
         fInputBuffer |-> <<>>, fFixedBuffer |-> fFixedBuffer,
         fCurrentFrame |-> IF toggled THEN NULL ELSE fCurrentFrame,
         fFrames |-> IF toggled THEN Append(fFrames, fInputBuffer) ELSE fFrames,
         fFrameSem |-> IF toggled THEN fFrameSem + 1 ELSE fFrameSem,
         accum |-> <<>>]

----------------------------------------------------------------------------
(* UVCDeframer::Write, the whole call. *)

WriteResult(buf) ==
    LET same == [ret |-> Len(buf), pub |-> <<>>, fID |-> fID,
                 fFIDChanges |-> fFIDChanges, fQueueOverflows |-> fQueueOverflows,
                 fFramesCompleted |-> fFramesCompleted,
                 fInputBuffer |-> fInputBuffer, fFixedBuffer |-> fFixedBuffer,
                 fCurrentFrame |-> fCurrentFrame, fFrames |-> fFrames,
                 fFrameSem |-> fFrameSem, accum |-> accum]
    IN
    IF ~HeaderValid(buf)
    THEN \* lines 121-128
         [same EXCEPT !.ret = B_ERROR]
    ELSE IF PayloadSize(buf) = 0
    THEN \* lines 130-134: header-only packet
         same
    ELSE
      LET eof == EofBit(buf)
          fidChanged == FidBit(buf) # fID
          \* ---- lines 163-237: FID change ----
          mjpegBranch == fidChanged /\ fExpectedFrameSize = 0
                            /\ Len(fInputBuffer) > 0
          queueCount == Len(fFrames)
          ovf1 == IF mjpegBranch /\ queueCount >= MAXFRAMEBUF
                  THEN fQueueOverflows + 1 ELSE fQueueOverflows
          cur1a == IF mjpegBranch /\ fCurrentFrame.isNull /\ queueCount < MAXFRAMEBUF
                   THEN AllocFrame ELSE fCurrentFrame
          pubFid == mjpegBranch /\ ~cur1a.isNull
          frames1 == IF pubFid THEN Append(fFrames, fInputBuffer) ELSE fFrames
          sem1 == IF pubFid THEN fFrameSem + 1 ELSE fFrameSem
          done1 == IF pubFid THEN fFramesCompleted + 1 ELSE fFramesCompleted
          cur1 == IF pubFid THEN NULL ELSE cur1a
          input1 == IF fidChanged THEN <<>> ELSE fInputBuffer
          fixed1 == IF fidChanged THEN <<>> ELSE fFixedBuffer
          id1 == IF fidChanged THEN FidBit(buf) ELSE fID
          fidc1 == IF fidChanged THEN fFIDChanges + 1 ELSE fFIDChanges
          pub1 == IF pubFid THEN <<fInputBuffer>> ELSE <<>>
          \* ---- lines 239-248: allocate a frame if needed ----
          dropped == cur1.isNull /\ Len(frames1) >= MAXFRAMEBUF
          cur2 == IF cur1.isNull /\ ~dropped THEN AllocFrame ELSE cur1
          \* ---- lines 263-298: copy the payload ----
          n == BytesToWrite(PayloadSize(buf), Len(fixed1), fExpectedFrameSize)
          fixed2 == AppendFixed(fixed1, Payload(buf), n)
          \* ---- lines 300-358: is the frame complete? ----
          currentSize == Len(fixed2)
          fixed3 == IF fExpectedFrameSize > 0 /\ eof /\ currentSize < fExpectedFrameSize
                    THEN PadTo(fixed2, fExpectedFrameSize) ELSE fixed2
          frameComplete ==
              IF fExpectedFrameSize > 0
              THEN eof \/ currentSize >= fExpectedFrameSize
              ELSE eof /\ ~fidChanged
          \* ---- lines 360-436: complete the frame ----
          frameData == FrameData(fExpectedFrameSize, fixed3, input1)
          base == IF fidChanged THEN <<>> ELSE accum
      IN
      IF dropped
      THEN \* lines 244-246: queue full, the packet is dropped
           [ret |-> Len(buf), pub |-> pub1, fID |-> id1, fFIDChanges |-> fidc1,
            fQueueOverflows |-> ovf1 + 1, fFramesCompleted |-> done1,
            fInputBuffer |-> input1, fFixedBuffer |-> fixed1,
            fCurrentFrame |-> cur1, fFrames |-> frames1, fFrameSem |-> sem1,
            accum |-> base \o Payload(buf)]
      ELSE [ret |-> Len(buf),
            pub |-> IF frameComplete THEN Append(pub1, frameData) ELSE pub1,
            fID |-> id1, fFIDChanges |-> fidc1, fQueueOverflows |-> ovf1,
            fFramesCompleted |-> IF frameComplete THEN done1 + 1 ELSE done1,
            fInputBuffer |-> IF frameComplete THEN <<>> ELSE input1,
            fFixedBuffer |-> IF frameComplete THEN <<>> ELSE fixed3,
            fCurrentFrame |-> IF frameComplete THEN NULL ELSE cur2,
            fFrames |-> IF frameComplete THEN Append(frames1, frameData) ELSE frames1,
            fFrameSem |-> IF frameComplete THEN sem1 + 1 ELSE sem1,
            accum |-> IF frameComplete THEN <<>> ELSE base \o Payload(buf)]

(* The fields of the deframer a Write call leaves behind. *)
WriteFields(r) ==
    /\ fID' = r.fID
    /\ fInputBuffer' = r.fInputBuffer
    /\ fFixedBuffer' = r.fFixedBuffer
    /\ fCurrentFrame' = r.fCurrentFrame
    /\ fFrames' = r.fFrames
    /\ fFrameSem' = r.fFrameSem

Write(buf) ==
    LET r == WriteResult(buf)
    IN  /\ WriteFields(r)
        /\ fFIDChanges' = r.fFIDChanges
        /\ fQueueOverflows' = r.fQueueOverflows
        /\ fFramesCompleted' = r.fFramesCompleted
        /\ accum' = r.accum
        /\ last' = [op |-> "Write", buf |-> buf, ret |-> r.ret, pub |-> r.pub,
                    fid0 |-> fID, exp |-> fExpectedFrameSize, accum0 |-> accum,
                    qlen0 |-> Len(fFrames)]
        /\ UNCHANGED <<fIsMJPEG, fExpectedFrameSize>>

(* UVCDeframer::SetExpectedFrameSize *)
SetExpectedFrameSize(size) == fExpectedFrameSize' = size

(* UVCCamDevice::AcceptVideoFrame(width, height): the frame list of the
   active format is searched for the resolution; only an uncompressed format
   sets the deframer's expected size.  B_ERROR, and no change, if the
   resolution is not listed. *)
Listed(res) == \E i \in 1 .. Len(FrameList) : FrameList[i] = res

AcceptVideoFrame(res) ==
    IF Listed(res)
    THEN /\ IF fIsMJPEG
            THEN UNCHANGED fExpectedFrameSize
            ELSE SetExpectedFrameSize(res[1] * res[2] * 2)
         /\ fVideoFrame' = res
    ELSE UNCHANGED <<fExpectedFrameSize, fVideoFrame>>

(* UVCDeframer::Flush with CamDeframer::Flush *)
Flush ==
    /\ fFrames' = <<>>
    /\ fCurrentFrame' = IF fCurrentFrame.isNull THEN NULL ELSE Frame(<<>>)
    /\ fFrameSem' = 0
    /\ fInputBuffer' = <<>>
    /\ fFixedBuffer' = <<>>
    /\ fID' = 0

(* CamDeframer::WaitFrame succeeding (the semaphore is acquired) and
   CamDeframer::GetFrame, as UVCCamDevice::FillFrameBuffer calls them. *)
WaitFrame ==
    /\ fFrameSem > 0
    /\ fFrameSem' = fFrameSem - 1

GetFrame == fFrames' = IF Len(fFrames) > 0 THEN Tail(fFrames) ELSE fFrames

----------------------------------------------------------------------------
(* Specification of part 1: the deframer driven by one caller at a time.
   Init is the deframer as constructed (UVCDeframer::UVCDeframer,
   CamDeframer::CamDeframer) on a device that offers MJPEG frames or only
   uncompressed ones. *)

InitDeframerFields ==
    /\ fIsMJPEG \in BOOLEAN
    /\ fID = 0
    /\ fFixedBuffer = <<>>
    /\ fInputBuffer = <<>>
    /\ fCurrentFrame = AllocFrame
    /\ fFrames = <<>>
    /\ fFrameSem = 0
    /\ fFIDChanges = 0
    /\ fQueueOverflows = 0
    /\ fFramesCompleted = 0
    /\ nWrites = 0
    /\ accum = <<>>
    /\ last = [op |-> "Init", buf |-> <<>>, ret |-> 0, pub |-> <<>>,
               fid0 |-> 0, exp |-> 0, accum0 |-> <<>>, qlen0 |-> 0]

InitDeframer == InitDeframerFields /\ fExpectedFrameSize = 0

(* The pump writes packets only while streaming, and streaming starts after
   the format was negotiated (VideoProducer::PrepareToConnect calls
   AcceptVideoFrame before HandleStart can run): an uncompressed-only device
   has its expected frame size set by then. *)
FormatNegotiated == fIsMJPEG \/ fExpectedFrameSize > 0

SeqWrite ==
    /\ FormatNegotiated
    /\ nWrites < MaxWrites
    /\ nWrites' = nWrites + 1
    /\ \E buf \in Packets : Write(buf)
    /\ UNCHANGED <<fVideoFrame, streamVars>>
    /\ UNCHANGED tpVars

SeqAcceptVideoFrame ==
    /\ \E i \in 1 .. Len(FrameList) : AcceptVideoFrame(FrameList[i])
    /\ last' = [op |-> "AcceptVideoFrame", buf |-> <<>>, ret |-> 0, pub |-> <<>>,
                fid0 |-> fID, exp |-> fExpectedFrameSize, accum0 |-> accum,
                qlen0 |-> Len(fFrames)]
    /\ UNCHANGED <<fIsMJPEG, fID, fFixedBuffer, fInputBuffer, fCurrentFrame, fFrames,
                   fFrameSem, fFIDChanges, fQueueOverflows, fFramesCompleted,
                   nWrites, accum, streamVars>>
    /\ UNCHANGED tpVars

SeqFlush ==
    /\ Flush
    /\ accum' = <<>>
    /\ last' = [op |-> "Flush", buf |-> <<>>, ret |-> 0, pub |-> <<>>,
                fid0 |-> fID, exp |-> fExpectedFrameSize, accum0 |-> accum,
                qlen0 |-> Len(fFrames)]
    /\ UNCHANGED <<fIsMJPEG, fExpectedFrameSize, fFIDChanges, fQueueOverflows,
                   fFramesCompleted, nWrites, fVideoFrame, streamVars>>
    /\ UNCHANGED tpVars

SeqWaitGetFrame ==
    /\ WaitFrame
    /\ GetFrame
    /\ last' = [op |-> "GetFrame", buf |-> <<>>,
                ret |-> IF Len(fFrames) > 0 THEN 0 ELSE B_ERROR, pub |-> <<>>,
                fid0 |-> fID, exp |-> fExpectedFrameSize, accum0 |-> accum,
                qlen0 |-> Len(fFrames)]
    /\ UNCHANGED <<fIsMJPEG, fID, fExpectedFrameSize, fFixedBuffer, fInputBuffer,
                   fCurrentFrame, fFIDChanges, fQueueOverflows, fFramesCompleted,
                   nWrites, accum, fVideoFrame, streamVars>>
    /\ UNCHANGED tpVars

----------------------------------------------------------------------------
(* Part 2: threads.  "ctl" is the media node's control thread, "gen" the
   frame generator (delivery) thread, "usb" the USB roster thread and the
   pumps are the threads CamDevice::StartTransfer spawns. *)

Pumps == {"pump1", "pump2"}
Callers == {"ctl", "gen", "usb"}
Threads == Callers \cup Pumps

(* Bounds of part 2: the camera sends a packet only while fewer than
   MaxQueued frames wait in the ready queue, and ends a frame (EOF) once
   MaxFill bytes of it have been sent. *)
MaxQueued == 2
MaxFill == 4

(* The device on the bus with the way the bus treats it.  alts is the list
   of alternate settings of the streaming interface, alternate 0 first, each
   a list of endpoints <<wMaxPacketSize, isochronous, input>>; version is
   the bcdUVC of the header descriptor; bulk tells that the device class
   streams over a bulk endpoint (SupportsBulk() returns true), which
   UVCCamDevice does not; payload is the max_payload_transfer_size the
   camera asks for, the size of its largest endpoint; answers are the kinds
   of answer the camera gives to a probe and commit (see AnswerKind); faults tells what goes wrong
   while it streams: whole transfers fail ("transfers"), single packets
   arrive with an error status ("packets"), or nothing ("none").  5120 = 0x1400 is 3 x 1024 bytes
   and 3072 = 0x0C00 is 2 x 1024 bytes per microframe. *)
IsoInEndpoint(raw) == <<raw, TRUE, TRUE>>
AlternatesMixed ==
    << <<>>, <<IsoInEndpoint(512)>>, <<IsoInEndpoint(1024)>>,
       << <<2000, TRUE, FALSE>>, IsoInEndpoint(1024) >>, <<IsoInEndpoint(5120)>> >>
AlternatesHighOnly == << <<>>, << <<1024, FALSE, TRUE>>, IsoInEndpoint(3072) >> >>
Cameras ==
    { [alts |-> AlternatesMixed, version |-> 272, bulk |-> FALSE,
       payload |-> 3072,
       answers |-> {"ok"}, faults |-> k] : k \in {"transfers", "packets"} }
    \cup
    { [alts |-> AlternatesHighOnly, version |-> 256, bulk |-> FALSE,
       payload |-> 2048,
       answers |-> {"ok", "zero", "short_probe", "short_commit", "no_response"},
       faults |-> "none"],
      [alts |-> << <<>> >>, version |-> 256, bulk |-> TRUE, payload |-> 0,
       answers |-> {"ok"}, faults |-> "none"] }

(* WEBCAM_DISABLE_HIGH_BANDWIDTH or WEBCAM_FORCE_HIGH_BANDWIDTH is set to
   "1" or "yes", or neither is.  The overrides are followed with one of the
   cameras. *)
Environments(c) ==
    IF c.alts = AlternatesMixed /\ c.faults = "transfers"
    THEN {"none", "disable", "force"} ELSE {"none"}

(* Parts 1 and 2 run with one camera and no override. *)
TheCamera == CHOOSE c \in Cameras : c.alts = AlternatesMixed /\ c.faults = "packets"


(* CamDevice::CamDevice: fErrorHistogram.Reset() and
   fErrorRecoveryConfig.Reset().  rlast is history only:
     error     the error type of the last call of EvaluateErrorRecovery,
               -1 before the first call;
     action    the action that call returned.
   CamDeframer::CamDeframer: the pool is empty and one frame exists, the
   one the constructor allocated for fCurrentFrame.
   UVCCamDevice::UVCCamDevice, lines 148-155: no audio transfer runs and
   there is no ring.  The locals of a thread are 0 while it is outside the
   function; apump and areader also hold history:
     packets   the packets the pump looked at;
     sent      the bytes the pump committed (head published);
     reads     the calls of ReadAudioData that found bytes to copy;
     got       the bytes ReadAudioData returned;
     out       the bytes ReadAudioData has copied, until it returns;
     uaf       the thread copied to or from a ring that was freed. *)
InitAuxFields ==
    /\ errorCounts = 0
    /\ consecutive_errors = 0
    /\ rlast = [error |-> 0 - 1, action |-> 0]
    /\ fFramePool = <<>>
    /\ heap = {1}
    /\ f = 0
    /\ fAudioRingBuffer = <<>>
    /\ fAudioRingHead = 0
    /\ fAudioRingTail = 0
    /\ fAudioTransferRunning = FALSE
    /\ apump = [pc |-> "none", head |-> 0, packetLen |-> 0, packets |-> 0,
                sent |-> 0, uaf |-> FALSE]
    /\ areader = [pc |-> "idle", size |-> 0,
                  toRead |-> 0, tail |-> 0, out |-> <<>>, reads |-> 0, got |-> 0,
                  uaf |-> FALSE]
    /\ actl = "idle"

(* The fields of part 3 as constructed (CamDevice.cpp 61-83, UVCCamDevice.cpp
   175-186).  fMaxVideoFrameSize and fMaxPayloadTransferSize have no
   initializer; they are not read before _ProbeCommitFormat has written
   them.  thist is history only:
     run       the number of whole transfers that failed in a row while the
               selected endpoint was a high-bandwidth one, up to
               kFailureThreshold;
     len       how the last transfer of the pump ended;
     answer    what the camera answered to the last probe and commit;
     selected  the last StartTransfer ran _SelectBestAlternate and it
               returned B_OK;
     stopped   a StopTransfer has stopped a stream since construction;
     data      the pump has forwarded a packet to the deframer;
     echo      the control block the camera returned in the GET_CUR of the
               last negotiation, <<>> if it returned none;
     commit    the control block sent in the commit SET_CUR of the last
               negotiation, <<>> if none was sent. *)
InitTransportFields ==
    /\ InitAuxFields
    /\ fHighBandwidthTested = FALSE
    /\ fHighBandwidthWorks = TRUE
    /\ fHighBandwidthFailures = 0
    /\ fUsingHighBandwidth = FALSE
    /\ fMaxVideoFrameSize = 0
    /\ fMaxPayloadTransferSize = 0
    /\ fIsoMaxPacketSize = 0
    /\ consecutiveFailures = 0
    /\ fPacketSuccessCount = 0
    /\ fPacketErrorCount = 0
    /\ fLastPacketSuccessCount = 0
    /\ fLastPacketErrorCount = 0
    /\ fEvalWindowPackets = 0
    /\ fEvalWindowErrors = 0
    /\ fErrorHistogram = 0
    /\ genFailures = 0 - 1
    /\ thist = [run |-> 0, len |-> "none", answer |-> "none", selected |-> FALSE,
                stopped |-> FALSE, data |-> FALSE, echo |-> <<>>, commit |-> <<>>]

(* CamDevice as constructed, the node registered and not started.  hist is
   history only:
     streaming  HandleStart has started the stream and neither a Stop nor a
                disconnect has been requested since;
     level0     the resolution level at which the packet-loss evaluation
                called _TriggerResolutionFallback or
                _AttemptResolutionRecovery, -1 outside such a call;
     stable     the last packet-loss evaluation closed a window with loss at
                or below the threshold after the stable time had elapsed;
     warnings   the number of "cannot fall back further" warnings logged
                since the resolution level last changed. *)
InitStream ==
    /\ pc = [t \in Threads |-> IF t \in Pumps THEN "free"
                                ELSE IF t = "gen" THEN "dead" ELSE "idle"]
    /\ op = [t \in {"ctl", "gen"} |-> "none"]
    /\ fLocker = [owner |-> "none", count |-> 0]
    /\ fDeframerLocker = "none"
    /\ fTransferEnabled = 0
    /\ fPumpThread = "none"
    /\ waitFor = [t \in Callers |-> "none"]
    /\ fIsoIn = FALSE
    /\ fCurrentVideoAlternate = 0
    /\ fDevice = TRUE
    /\ attached = TRUE
    /\ fRunning = FALSE
    /\ fCurrentResolutionLevel = 0
    /\ fTargetResolutionLevel = 0
    /\ fFallbackActive = FALSE
    /\ fFallbackWarningShown = FALSE
    /\ fEvalWindowStartTime = 0
    /\ fStableStartTime = 0
    /\ fExpectedMJPEGMinSize = 0
    /\ fSelectedResolutionIndex = 0
    /\ hist = [streaming |-> FALSE, level0 |-> 0 - 1, stable |-> FALSE,
                warnings |-> 0]
    /\ InitTransportFields

----------------------------------------------------------------------------
(* BLocker as CamDevice::fLocker is used.  Lock blocks while another thread
   owns the lock and nests for the owner.  Unlock does not check the caller:
   it decrements the recursion count and gives the lock up when the count
   reaches zero. *)
LockAvailable(t) == fLocker.owner \in {"none", t}
BLockerLock(l, t) == [owner |-> t, count |-> IF l.owner = t THEN l.count + 1 ELSE 1]
BLockerUnlock(l) == [owner |-> IF l.count - 1 = 0 THEN "none" ELSE l.owner,
                     count |-> l.count - 1]
Acquired(t) == BLockerLock(fLocker, t)
Released == BLockerUnlock(fLocker)

(* A thread ends: every wait_for_thread on it returns. *)
Woken(p) == [t \in Callers |-> IF waitFor[t] = p THEN "none" ELSE waitFor[t]]

(* The statistics counters and the history of part 1 are not followed in
   part 2. *)
statVars == <<fFIDChanges, fQueueOverflows, fFramesCompleted, accum, last>>
dfData == <<fIsMJPEG, fID, fExpectedFrameSize, fFixedBuffer, fInputBuffer,
            fCurrentFrame, fFrames, fFrameSem, statVars>>
devVars == <<fIsoIn, fCurrentVideoAlternate, fDevice, attached>>
fbVars == <<fCurrentResolutionLevel, fTargetResolutionLevel, fFallbackActive,
            fFallbackWarningShown, fEvalWindowStartTime, fStableStartTime,
            fExpectedMJPEGMinSize, fSelectedResolutionIndex>>

Goto(t, label) == pc' = [pc EXCEPT ![t] = label]

----------------------------------------------------------------------------
(* CamDevice::DataPumpThread, isochronous path.  The camera looks at
   darkness: a packet carries four bytes of black YUY2, or one byte and the
   EOF bit. *)

StreamPackets ==
    { <<2, 2, 0>> } \cup (IF Len(fFixedBuffer) < MaxFill
                          THEN { <<2, 0, 0, 128, 0, 128>> } ELSE {})
TransferResults == {"error", "nodata", "data"}

(* line 914: while (atomic_get(&fTransferEnabled)) *)
PumpLoop(p) ==
    /\ pc[p] = "loop"
    /\ IF fTransferEnabled = 0
       THEN pc' = [pc EXCEPT ![p] = "free"] /\ waitFor' = Woken(p)
       ELSE pc' = [pc EXCEPT ![p] = "xfer"] /\ UNCHANGED waitFor
    /\ UNCHANGED <<dfData, nWrites, fVideoFrame, op, fLocker, fDeframerLocker,
                   fTransferEnabled, fPumpThread, devVars, fRunning, fbVars, hist>>
    /\ UNCHANGED tpVars

(* lines 920-1074: BAutolock lock(fLocker); leave if the endpoint is gone,
   else one isochronous transfer; the lock is released when the block ends
   and fDataInput->Write is called for a packet the transfer brought.  Write
   takes the deframer's lock only to allocate a frame (UVCDeframer.cpp
   239-248); the AddItem of a completed frame (line 427) takes none. *)
PumpTransfer(p) ==
    /\ pc[p] = "xfer"
    /\ LockAvailable(p)
    /\ fLocker' = BLockerUnlock(Acquired(p))
    /\ IF ~fIsoIn
       THEN /\ pc' = [pc EXCEPT ![p] = "free"] /\ waitFor' = Woken(p)
            /\ UNCHANGED <<fID, fInputBuffer, fFixedBuffer, fCurrentFrame, fFrames,
                           fFrameSem>>
       ELSE /\ \E r \in (IF ~attached THEN {"error"}
                         ELSE IF Len(fFrames) < MaxQueued THEN TransferResults
                         ELSE {"error", "nodata"}) :
                 IF r = "data"
                 THEN /\ fCurrentFrame.isNull => fDeframerLocker = "none"
                      /\ \E buf \in StreamPackets : WriteFields(WriteResult(buf))
                 ELSE UNCHANGED <<fID, fInputBuffer, fFixedBuffer, fCurrentFrame,
                                  fFrames, fFrameSem>>
            /\ pc' = [pc EXCEPT ![p] = "loop"]
            /\ UNCHANGED waitFor
    /\ UNCHANGED <<fIsMJPEG, fExpectedFrameSize, statVars, nWrites, fVideoFrame, op,
                   fDeframerLocker, fTransferEnabled, fPumpThread, devVars, fRunning,
                   fbVars, hist>>
    /\ UNCHANGED tpVars

----------------------------------------------------------------------------
(* UVCCamDevice::StopTransfer and UVCCamDevice::StartTransfer as thread t
   ("ctl" or "gen") runs them inside its operation op[t]. *)

AfterStop(t) ==
    IF op[t] = "HandleStop" THEN "unlock"
    ELSE IF op[t] = "SetParameterValue" THEN "start"
    ELSE "accept"

AfterStart(t, ok) ==
    IF t = "ctl" THEN "unlock" ELSE IF ok THEN "fb_ok" ELSE "fb_fail"

(* UVCCamDevice::_SelectIdleAlternate: SET_INTERFACE to alternate 0 *)
_SelectIdleAlternate ==
    /\ fCurrentVideoAlternate' = IF fDevice /\ fCurrentVideoAlternate # 0 /\ attached
                                 THEN 0 ELSE fCurrentVideoAlternate
    /\ fIsoIn' = FALSE

(* UVCCamDevice::StopTransfer: _SelectIdleAlternate, then
   CamDevice::StopTransfer up to wait_for_thread *)
StopTransfer(t) ==
    /\ pc[t] = "stop"
    /\ _SelectIdleAlternate
    /\ IF fTransferEnabled = 0
       THEN /\ pc' = [pc EXCEPT ![t] = AfterStop(t)]
            /\ UNCHANGED <<fTransferEnabled, fLocker, waitFor>>
       ELSE /\ fTransferEnabled' = 0
            /\ fLocker' = Released
            /\ waitFor' = [waitFor EXCEPT ![t] =
                              IF fPumpThread # "none" /\ pc[fPumpThread] # "free"
                              THEN fPumpThread ELSE "none"]
            /\ pc' = [pc EXCEPT ![t] = "stop_wait"]
    /\ UNCHANGED <<dfData, nWrites, fVideoFrame, op, fDeframerLocker, fPumpThread,
                   fDevice, attached, fRunning, fbVars, hist>>
    /\ UNCHANGED tpVars

(* wait_for_thread(fPumpThread) returns *)
StopWait(t) ==
    /\ pc[t] = "stop_wait"
    /\ waitFor[t] = "none"
    /\ pc' = [pc EXCEPT ![t] = "stop_relock"]
    /\ UNCHANGED <<dfData, nWrites, fVideoFrame, op, fLocker, fDeframerLocker,
                   fTransferEnabled, fPumpThread, waitFor, devVars, fRunning,
                   fbVars, hist>>
    /\ UNCHANGED tpVars

(* fLocker.Lock(); return B_OK *)
StopRelock(t) ==
    /\ pc[t] = "stop_relock"
    /\ LockAvailable(t)
    /\ fLocker' = Acquired(t)
    /\ pc' = [pc EXCEPT ![t] = AfterStop(t)]
    /\ UNCHANGED <<dfData, nWrites, fVideoFrame, op, fDeframerLocker,
                   fTransferEnabled, fPumpThread, waitFor, devVars, fRunning,
                   fbVars, hist>>
    /\ UNCHANGED tpVars

FreePump == IF pc["pump1"] = "free" THEN "pump1" ELSE "pump2"

(* UVCCamDevice::StartTransfer: _ProbeCommitFormat and _SelectBestAlternate
   (control transfers, which a camera that is plugged in answers), then
   CamDevice::StartTransfer *)
StartTransfer(t) ==
    /\ pc[t] = "start"
    /\ IF ~(attached /\ fDevice)
       THEN /\ pc' = [pc EXCEPT ![t] = AfterStart(t, FALSE)]
            /\ UNCHANGED <<fIsoIn, fCurrentVideoAlternate, fTransferEnabled,
                           fPumpThread, hist>>
       ELSE /\ fIsoIn' = TRUE
            /\ fCurrentVideoAlternate' = 1
            /\ IF fTransferEnabled # 0
               THEN /\ pc' = [pc EXCEPT ![t] = AfterStart(t, FALSE)]
                    /\ UNCHANGED <<fTransferEnabled, fPumpThread, hist>>
               ELSE /\ pc[FreePump] = "free"
                    /\ fPumpThread' = FreePump
                    /\ fTransferEnabled' = 1
                    /\ pc' = [pc EXCEPT ![FreePump] = "loop",
                                        ![t] = AfterStart(t, TRUE)]
                    /\ hist' = [hist EXCEPT !.streaming = @ \/ op[t] = "HandleStart"]
    /\ UNCHANGED <<dfData, nWrites, fVideoFrame, op, fLocker, fDeframerLocker,
                   waitFor, fDevice, attached, fRunning, fbVars>>
    /\ UNCHANGED tpVars

----------------------------------------------------------------------------
(* The resolution ladder of the fallback controller. *)

_GetMaxResolutionLevel == IF Len(FrameList) > 0 THEN Len(FrameList) - 1 ELSE 0

_GetResolutionAtLevel(level) ==
    LET i0 == IF level < 0 THEN 0 ELSE level
        index == IF i0 >= Len(FrameList) THEN Len(FrameList) - 1 ELSE i0
    IN  IF index >= 0 /\ index < Len(FrameList) THEN FrameList[index + 1]
        ELSE <<320, 240>>

Pixels(res) == res[1] * res[2]

(* UVCCamDevice::ReduceResolution: the index (from 1) of the largest listed
   resolution with fewer pixels than the current one, 0 if there is none. *)
LowerIndex ==
    LET lower == { i \in 1 .. Len(FrameList) : Pixels(FrameList[i]) < Pixels(fVideoFrame) }
    IN  IF Len(FrameList) <= 1 \/ lower = {} THEN 0
        ELSE CHOOSE i \in lower :
               \A j \in lower : \/ Pixels(FrameList[i]) > Pixels(FrameList[j])
                                \/ Pixels(FrameList[i]) = Pixels(FrameList[j]) /\ i <= j

(* _InitializeFallbackConfig *)
min_packets_for_eval == 100
error_threshold_percent == 10

(* _EvaluatePacketLoss lines 3738-3740: errors * 100 / packets > threshold *)
LossExceeds(packets, errors) == errors * 100 > error_threshold_percent * packets

(* FillFrameBuffer lines 2942-2956 *)
MJPEGMinSize(res) == (res[1] * res[2] * 2) \div 20
FramesTooSmall(avgSize, minSize) == avgSize < (minSize * 30) \div 100

(* What an evaluation window holds when it closes, <<packets, errors>>, and
   the average MJPEG frame size of a monitoring period: sums of what the
   camera and the bus delivered. *)
Windows == { <<99, 99>>, <<100, 10>>, <<100, 11>> }
AvgSizes == { 0, 9215, 9216 }

----------------------------------------------------------------------------
(* VideoProducer::FrameGenerator calling UVCCamDevice::FillFrameBuffer
   without the device lock (Producer.cpp 1351-1357). *)

(* while (fRunning), then fDeframer->WaitFrame(2000000) and the BAutolock of
   CamDeframer::GetFrame; a wait that times out leads back here. *)
GenWaitFrame ==
    /\ pc["gen"] = "wait"
    /\ IF ~fRunning
       THEN Goto("gen", "dead") /\ UNCHANGED <<fFrameSem, fDeframerLocker>>
       ELSE /\ WaitFrame
            /\ fDeframerLocker' = "gen"
            /\ Goto("gen", "remove")
    /\ UNCHANGED <<fIsMJPEG, fID, fExpectedFrameSize, fFixedBuffer, fInputBuffer,
                   fCurrentFrame, fFrames, statVars, nWrites, fVideoFrame, op, fLocker,
                   fTransferEnabled, fPumpThread, waitFor, devVars, fRunning, fbVars,
                   hist>>
    /\ UNCHANGED tpVars

(* UVCCamDevice::ReduceResolution *)
ReduceResolution ==
    IF LowerIndex # 0
    THEN /\ AcceptVideoFrame(FrameList[LowerIndex])
         /\ fExpectedMJPEGMinSize' = 0
         /\ fFallbackActive' = TRUE
    ELSE UNCHANGED <<fVideoFrame, fExpectedFrameSize, fExpectedMJPEGMinSize,
                     fFallbackActive>>

(* FillFrameBuffer lines 2931-2970: the MJPEG frame size monitor; when a
   monitoring period is due and the average is too small it calls
   ReduceResolution. *)
MJPEGSizeMonitor ==
    \E due \in BOOLEAN, avgSize \in AvgSizes :
       LET minSize == IF fExpectedMJPEGMinSize = 0
                      THEN MJPEGMinSize(fVideoFrame) ELSE fExpectedMJPEGMinSize
       IN  IF due /\ FramesTooSmall(avgSize, minSize)
           THEN IF LowerIndex # 0
                THEN ReduceResolution
                ELSE /\ fExpectedMJPEGMinSize' = minSize
                     /\ UNCHANGED <<fVideoFrame, fExpectedFrameSize, fFallbackActive>>
           ELSE /\ fExpectedMJPEGMinSize' = minSize
                /\ UNCHANGED <<fVideoFrame, fExpectedFrameSize, fFallbackActive>>

(* CamDeframer::GetFrame (RemoveItem(0), the lock is released) and, for an
   MJPEG frame, the size monitor. *)
GenGetFrame ==
    /\ pc["gen"] = "remove"
    /\ GetFrame
    /\ fDeframerLocker' = "none"
    /\ Goto("gen", IF Len(fFrames) > 0 THEN "eval" ELSE "wait")
    /\ IF fIsMJPEG /\ Len(fFrames) > 0
       THEN MJPEGSizeMonitor
       ELSE UNCHANGED <<fVideoFrame, fExpectedFrameSize, fExpectedMJPEGMinSize,
                        fFallbackActive>>
    /\ UNCHANGED <<fIsMJPEG, fID, fFixedBuffer, fInputBuffer, fCurrentFrame,
                   fFrameSem, statVars, nWrites, op, fLocker, fTransferEnabled,
                   fPumpThread, waitFor, devVars, fRunning, fCurrentResolutionLevel,
                   fTargetResolutionLevel, fFallbackWarningShown,
                   fEvalWindowStartTime, fStableStartTime, fSelectedResolutionIndex,
                   hist>>
    /\ UNCHANGED tpVars

(* _EvaluatePacketLoss lines 3725-3756: the evaluation window has closed
   with enough packets and loss at or below the threshold, and the stable
   time started by an earlier window has lasted recovery_delay. *)
RecoveryDue(elapsed, stableElapsed, w) ==
    /\ fEvalWindowStartTime # 0
    /\ elapsed
    /\ w[1] >= min_packets_for_eval
    /\ ~LossExceeds(w[1], w[2])
    /\ fStableStartTime # 0
    /\ stableElapsed

(* FillFrameBuffer lines 3001-3011 with _EvaluatePacketLoss up to the call of
   _TriggerResolutionFallback or _AttemptResolutionRecovery, or to its end
   when it calls neither; the frame is then decoded and recycled. *)
GenEvaluatePacketLoss ==
    /\ pc["gen"] = "eval"
    /\ \E elapsed \in BOOLEAN, stableElapsed \in BOOLEAN, w \in Windows :
         /\ IF fEvalWindowStartTime = 0
            THEN /\ fEvalWindowStartTime' = 1
                 /\ Goto("gen", "wait")
                 /\ UNCHANGED <<op, fStableStartTime>>
            ELSE IF ~elapsed
            THEN /\ Goto("gen", "wait")
                 /\ UNCHANGED <<op, fEvalWindowStartTime, fStableStartTime>>
            ELSE IF w[1] < min_packets_for_eval
            THEN /\ Goto("gen", "wait")
                 /\ UNCHANGED <<op, fEvalWindowStartTime, fStableStartTime>>
            ELSE IF LossExceeds(w[1], w[2])
            THEN IF ~fFallbackActive \/ fCurrentResolutionLevel < _GetMaxResolutionLevel
                 THEN /\ Goto("gen", "fb_begin")
                      /\ op' = [op EXCEPT !["gen"] = "Fallback"]
                      /\ UNCHANGED <<fEvalWindowStartTime, fStableStartTime>>
                 ELSE /\ fStableStartTime' = 0
                      /\ Goto("gen", "wait")
                      /\ UNCHANGED <<op, fEvalWindowStartTime>>
            ELSE IF fStableStartTime = 0
            THEN /\ fStableStartTime' = 1
                 /\ Goto("gen", "wait")
                 /\ UNCHANGED <<op, fEvalWindowStartTime>>
            ELSE IF fFallbackActive /\ stableElapsed
            THEN /\ Goto("gen", "rc_begin")
                 /\ op' = [op EXCEPT !["gen"] = "Recovery"]
                 /\ UNCHANGED <<fEvalWindowStartTime, fStableStartTime>>
            ELSE /\ Goto("gen", "wait")
                 /\ UNCHANGED <<op, fEvalWindowStartTime, fStableStartTime>>
         /\ hist' = [hist EXCEPT
                       !.level0 = IF pc'["gen"] \in {"fb_begin", "rc_begin"}
                                  THEN fCurrentResolutionLevel ELSE @,
                       !.stable = RecoveryDue(elapsed, stableElapsed, w)]
    /\ UNCHANGED <<dfData, nWrites, fVideoFrame, fLocker, fDeframerLocker,
                   fTransferEnabled, fPumpThread, waitFor, devVars, fRunning,
                   fCurrentResolutionLevel, fTargetResolutionLevel, fFallbackActive,
                   fFallbackWarningShown, fExpectedMJPEGMinSize,
                   fSelectedResolutionIndex>>
    /\ UNCHANGED tpVars

(* A fallback without the cap of lines 3772-3778: it targets the next level
   whatever the current one is. *)
C14_FallbackWithoutCap ==
    /\ pc["gen"] = "fb_begin"
    /\ fTargetResolutionLevel' = fCurrentResolutionLevel + 1
    /\ Goto("gen", IF fTransferEnabled # 0 THEN "stop" ELSE "accept")
    /\ UNCHANGED <<fFallbackWarningShown, hist>>
    /\ UNCHANGED <<dfData, nWrites, fVideoFrame, op, fLocker, fDeframerLocker,
                   fTransferEnabled, fPumpThread, waitFor, devVars, fRunning,
                   fCurrentResolutionLevel, fFallbackActive, fEvalWindowStartTime,
                   fStableStartTime, fExpectedMJPEGMinSize, fSelectedResolutionIndex>>
    /\ UNCHANGED tpVars

(* _TriggerResolutionFallback lines 3770-3793 *)
_TriggerResolutionFallback ==
    /\ pc["gen"] = "fb_begin"
    /\ IF fCurrentResolutionLevel >= _GetMaxResolutionLevel
       THEN /\ fFallbackWarningShown' = TRUE
            /\ hist' = [hist EXCEPT !.warnings =
                                      IF ~fFallbackWarningShown THEN @ + 1 ELSE @]
            /\ Goto("gen", "fb_fail")
            /\ UNCHANGED fTargetResolutionLevel
       ELSE /\ fTargetResolutionLevel' = fCurrentResolutionLevel + 1
            /\ Goto("gen", IF fTransferEnabled # 0 THEN "stop" ELSE "accept")
            /\ UNCHANGED <<fFallbackWarningShown, hist>>
    /\ UNCHANGED <<dfData, nWrites, fVideoFrame, op, fLocker, fDeframerLocker,
                   fTransferEnabled, fPumpThread, waitFor, devVars, fRunning,
                   fCurrentResolutionLevel, fFallbackActive, fEvalWindowStartTime,
                   fStableStartTime, fExpectedMJPEGMinSize, fSelectedResolutionIndex>>
    /\ UNCHANGED tpVars

(* _AttemptResolutionRecovery lines 3826-3842 *)
_AttemptResolutionRecovery ==
    /\ pc["gen"] = "rc_begin"
    /\ IF fCurrentResolutionLevel <= 0
       THEN /\ Goto("gen", "wait")
            /\ op' = [op EXCEPT !["gen"] = "none"]
            /\ hist' = [hist EXCEPT !.level0 = 0 - 1]
            /\ UNCHANGED fTargetResolutionLevel
       ELSE /\ fTargetResolutionLevel' = fCurrentResolutionLevel - 1
            /\ Goto("gen", IF fTransferEnabled # 0 THEN "stop" ELSE "accept")
            /\ UNCHANGED <<op, hist>>
    /\ UNCHANGED <<dfData, nWrites, fVideoFrame, fLocker, fDeframerLocker,
                   fTransferEnabled, fPumpThread, waitFor, devVars, fRunning,
                   fCurrentResolutionLevel, fFallbackActive, fFallbackWarningShown,
                   fEvalWindowStartTime, fStableStartTime, fExpectedMJPEGMinSize,
                   fSelectedResolutionIndex>>
    /\ UNCHANGED tpVars

(* lines 3796-3804 and 3844-3852: AcceptVideoFrame at the target level, then
   fCurrentResolutionLevel = fTargetResolutionLevel *)
GenAcceptTarget ==
    /\ pc["gen"] = "accept"
    /\ LET res == _GetResolutionAtLevel(fTargetResolutionLevel)
       IN  /\ AcceptVideoFrame(res)
           /\ IF Listed(res)
              THEN /\ fCurrentResolutionLevel' = fTargetResolutionLevel
                   /\ hist' = [hist EXCEPT !.warnings = 0]
                   /\ Goto("gen", "start")
              ELSE /\ UNCHANGED <<fCurrentResolutionLevel, hist>>
                   /\ Goto("gen", "fb_fail")
    /\ UNCHANGED <<fIsMJPEG, fID, fFixedBuffer, fInputBuffer, fCurrentFrame, fFrames,
                   fFrameSem, statVars, nWrites, op, fLocker, fDeframerLocker,
                   fTransferEnabled, fPumpThread, waitFor, devVars, fRunning,
                   fTargetResolutionLevel, fFallbackActive, fFallbackWarningShown,
                   fEvalWindowStartTime, fStableStartTime, fExpectedMJPEGMinSize,
                   fSelectedResolutionIndex>>
    /\ UNCHANGED tpVars

(* StartTransfer returned B_OK: lines 3814-3819 or 3862-3870, then the end of
   _EvaluatePacketLoss (lines 3748, 3760-3763). *)
GenRestarted ==
    /\ pc["gen"] = "fb_ok"
    /\ IF op["gen"] = "Fallback"
       THEN /\ fFallbackActive' = TRUE
            /\ fFallbackWarningShown' = FALSE
       ELSE /\ fFallbackActive' = IF fCurrentResolutionLevel = 0 THEN FALSE
                                  ELSE fFallbackActive
            /\ UNCHANGED fFallbackWarningShown
    /\ fStableStartTime' = 0
    /\ hist' = [hist EXCEPT !.level0 = 0 - 1]
    /\ op' = [op EXCEPT !["gen"] = "none"]
    /\ Goto("gen", "wait")
    /\ UNCHANGED <<dfData, nWrites, fVideoFrame, fLocker, fDeframerLocker,
                   fTransferEnabled, fPumpThread, waitFor, devVars, fRunning,
                   fCurrentResolutionLevel, fTargetResolutionLevel,
                   fEvalWindowStartTime, fExpectedMJPEGMinSize,
                   fSelectedResolutionIndex>>
    /\ UNCHANGED tpVars

(* _TriggerResolutionFallback or _AttemptResolutionRecovery returned an
   error, then the end of _EvaluatePacketLoss. *)
GenNotRestarted ==
    /\ pc["gen"] = "fb_fail"
    /\ fStableStartTime' = 0
    /\ hist' = [hist EXCEPT !.level0 = 0 - 1]
    /\ op' = [op EXCEPT !["gen"] = "none"]
    /\ Goto("gen", "wait")
    /\ UNCHANGED <<dfData, nWrites, fVideoFrame, fLocker, fDeframerLocker,
                   fTransferEnabled, fPumpThread, waitFor, devVars, fRunning,
                   fCurrentResolutionLevel, fTargetResolutionLevel, fFallbackActive,
                   fFallbackWarningShown, fEvalWindowStartTime,
                   fExpectedMJPEGMinSize, fSelectedResolutionIndex>>
    /\ UNCHANGED tpVars

----------------------------------------------------------------------------
(* The control thread: VideoProducer::HandleStart, HandleStop and
   SetParameterValue of the resolution selector (parameter 14). *)

(* HandleStart up to the BAutolock: fRunning = true, the frame generator is
   spawned and resumed. *)
HandleStart ==
    /\ pc["ctl"] = "idle"
    /\ ~fRunning
    /\ fDevice
    /\ pc["gen"] = "dead"
    /\ fRunning' = TRUE
    /\ pc' = [pc EXCEPT !["ctl"] = "lock", !["gen"] = "wait"]
    /\ op' = [op EXCEPT !["ctl"] = "HandleStart"]
    /\ UNCHANGED <<dfData, nWrites, fVideoFrame, fLocker, fDeframerLocker,
                   fTransferEnabled, fPumpThread, waitFor, devVars, fbVars, hist>>
    /\ UNCHANGED tpVars

(* HandleStop up to wait_for_thread_etc: fRunning = false *)
HandleStop ==
    /\ pc["ctl"] = "idle"
    /\ fRunning
    /\ fDevice
    /\ fRunning' = FALSE
    /\ Goto("ctl", "wait_gen")
    /\ op' = [op EXCEPT !["ctl"] = "HandleStop"]
    /\ hist' = [hist EXCEPT !.streaming = FALSE]
    /\ UNCHANGED <<dfData, nWrites, fVideoFrame, fLocker, fDeframerLocker,
                   fTransferEnabled, fPumpThread, waitFor, devVars, fbVars>>
    /\ UNCHANGED tpVars

(* The frame generator cannot get on: it waits for the pump thread or for
   the device lock. *)
GenBlocked ==
    \/ pc["gen"] = "stop_wait" /\ waitFor["gen"] # "none"
    \/ pc["gen"] = "stop_relock" /\ ~LockAvailable("gen")

(* HandleStop lines 1174-1179: the frame generator has ended, or the 5 s
   wait times out on a blocked generator and kill_thread ends it. *)
HandleStopJoin ==
    /\ pc["ctl"] = "wait_gen"
    /\ \/ /\ pc["gen"] = "dead"
          /\ Goto("ctl", "lock")
          /\ UNCHANGED <<op, waitFor, hist>>
       \/ /\ GenBlocked
          /\ pc' = [pc EXCEPT !["ctl"] = "lock", !["gen"] = "dead"]
          /\ op' = [op EXCEPT !["gen"] = "none"]
          /\ waitFor' = [waitFor EXCEPT !["gen"] = "none"]
          /\ hist' = [hist EXCEPT !.level0 = 0 - 1]
    /\ UNCHANGED <<dfData, nWrites, fVideoFrame, fLocker, fDeframerLocker,
                   fTransferEnabled, fPumpThread, devVars, fRunning, fbVars>>
    /\ UNCHANGED tpVars

(* VideoProducer::SetParameterValue for the resolution selector *)
SetParameterValue ==
    /\ pc["ctl"] = "idle"
    /\ fDevice
    /\ Goto("ctl", "lock")
    /\ op' = [op EXCEPT !["ctl"] = "SetParameterValue"]
    /\ UNCHANGED <<dfData, nWrites, fVideoFrame, fLocker, fDeframerLocker,
                   fTransferEnabled, fPumpThread, waitFor, devVars, fRunning, fbVars,
                   hist>>
    /\ UNCHANGED tpVars

(* BAutolock lock(fCamDevice->Locker()) of the three operations *)
CtlLock ==
    /\ pc["ctl"] = "lock"
    /\ LockAvailable("ctl")
    /\ fLocker' = Acquired("ctl")
    /\ Goto("ctl", IF op["ctl"] = "HandleStart" THEN "start"
                   ELSE IF op["ctl"] = "HandleStop" THEN "stop"
                   ELSE "spv")
    /\ UNCHANGED <<dfData, nWrites, fVideoFrame, op, fDeframerLocker,
                   fTransferEnabled, fPumpThread, waitFor, devVars, fRunning, fbVars,
                   hist>>
    /\ UNCHANGED tpVars

(* UVCCamDevice::SetParameterValue case 14, lines 2735-2802: a different
   resolution index is selected, the deframer is flushed. *)
SelectResolution ==
    /\ pc["ctl"] = "spv"
    /\ fDeframerLocker = "none"
    /\ \E newIndex \in 0 .. Len(FrameList) - 1 :
         /\ newIndex # fSelectedResolutionIndex
         /\ fSelectedResolutionIndex' = newIndex
         /\ fVideoFrame' = FrameList[newIndex + 1]
         /\ IF fIsMJPEG
            THEN UNCHANGED fExpectedFrameSize
            ELSE SetExpectedFrameSize(FrameList[newIndex + 1][1]
                                        * FrameList[newIndex + 1][2] * 2)
    /\ Flush
    /\ Goto("ctl", IF fTransferEnabled # 0 THEN "stop" ELSE "unlock")
    /\ UNCHANGED <<fIsMJPEG, statVars, nWrites, op, fLocker, fDeframerLocker,
                   fTransferEnabled, fPumpThread, waitFor, devVars, fRunning,
                   fCurrentResolutionLevel, fTargetResolutionLevel, fFallbackActive,
                   fFallbackWarningShown, fEvalWindowStartTime, fStableStartTime,
                   fExpectedMJPEGMinSize, hist>>
    /\ UNCHANGED tpVars

(* the BAutolock goes out of scope *)
CtlUnlock ==
    /\ pc["ctl"] = "unlock"
    /\ fLocker' = Released
    /\ Goto("ctl", "idle")
    /\ op' = [op EXCEPT !["ctl"] = "none"]
    /\ UNCHANGED <<dfData, nWrites, fVideoFrame, fDeframerLocker,
                   fTransferEnabled, fPumpThread, waitFor, devVars, fRunning, fbVars,
                   hist>>
    /\ UNCHANGED tpVars

----------------------------------------------------------------------------
(* The USB roster thread: the camera is pulled and CamDevice::Unplugged
   runs (CamRoster::DeviceRemoved). *)

(* Unplugged lines 207-217, and to its end when it does not wait *)
Unplugged ==
    /\ pc["usb"] = "idle"
    /\ attached' = FALSE
    /\ fTransferEnabled' = 0
    /\ hist' = [hist EXCEPT !.streaming = FALSE]
    /\ IF fTransferEnabled # 0 /\ fPumpThread # "none"
       THEN /\ waitFor' = [waitFor EXCEPT !["usb"] =
                             IF pc[fPumpThread] # "free" THEN fPumpThread ELSE "none"]
            /\ Goto("usb", "u_wait")
            /\ UNCHANGED <<fDevice, fIsoIn>>
       ELSE /\ fDevice' = FALSE
            /\ fIsoIn' = FALSE
            /\ Goto("usb", "done")
            /\ UNCHANGED waitFor
    /\ UNCHANGED <<dfData, nWrites, fVideoFrame, op, fLocker, fDeframerLocker,
                   fPumpThread, fCurrentVideoAlternate, fRunning, fbVars>>
    /\ UNCHANGED tpVars

(* lines 218-238: wait_for_thread(fPumpThread) returns; fPumpThread = -1;
   the device and endpoint pointers are cleared *)
UnpluggedJoin ==
    /\ pc["usb"] = "u_wait"
    /\ waitFor["usb"] = "none"
    /\ fPumpThread' = "none"
    /\ fDevice' = FALSE
    /\ fIsoIn' = FALSE
    /\ Goto("usb", "done")
    /\ UNCHANGED <<dfData, nWrites, fVideoFrame, op, fLocker, fDeframerLocker,
                   fTransferEnabled, waitFor, fCurrentVideoAlternate, attached,
                   fRunning, fbVars, hist>>
    /\ UNCHANGED tpVars

----------------------------------------------------------------------------
(* Specification SpecStream: a streaming session on a device that offers
   only uncompressed frames, with every operation of the control thread.
   The format has been negotiated (VideoProducer::PrepareToConnect):
   fVideoFrame is the first listed resolution and the deframer has its
   expected frame size. *)

InitSession ==
    /\ InitDeframerFields
    /\ InitStream
    /\ ~fIsMJPEG
    /\ camera = TheCamera
    /\ env = "none"
    /\ fVideoFrame = FrameList[1]
    /\ fExpectedFrameSize = FrameList[1][1] * FrameList[1][2] * 2

PumpStep == \E p \in Pumps : PumpLoop(p) \/ PumpTransfer(p)

CallStep(t) ==
    \/ StopTransfer(t)
    \/ StopWait(t)
    \/ StopRelock(t)
    \/ StartTransfer(t)

GenStep ==
    \/ GenWaitFrame
    \/ GenGetFrame
    \/ GenEvaluatePacketLoss
    \/ _TriggerResolutionFallback
    \/ _AttemptResolutionRecovery
    \/ GenAcceptTarget
    \/ GenRestarted
    \/ GenNotRestarted
    \/ CallStep("gen")

CtlStep ==
    \/ HandleStopJoin
    \/ CtlLock
    \/ SelectResolution
    \/ CtlUnlock
    \/ CallStep("ctl")

CtlRequest == HandleStart \/ HandleStop \/ SetParameterValue

NextSession ==
    \/ PumpStep
    \/ GenStep
    \/ CtlStep
    \/ CtlRequest

SpecStream == InitSession /\ [][NextSession]_vars

----------------------------------------------------------------------------
(* Specification SpecFallback: a session on a device that offers MJPEG
   frames, started by HandleStart and then left to the delivery thread and
   the pump until the camera is unplugged. *)

InitFallback ==
    /\ InitDeframerFields
    /\ InitStream
    /\ fIsMJPEG
    /\ camera = TheCamera
    /\ env = "none"
    /\ fVideoFrame = FrameList[1]
    /\ fExpectedFrameSize = 0

StartStep == HandleStart \/ CtlLock \/ StartTransfer("ctl") \/ CtlUnlock

NextFallback ==
    \/ PumpStep
    \/ GenStep
    \/ StartStep
    \/ Unplugged
    \/ UnpluggedJoin

SpecFallback == InitFallback /\ [][NextFallback]_vars

(* Every thread that can take a step eventually takes one; what the node's
   clients and the bus ask for (HandleStart, the unplugging) is not forced
   to happen. *)
Fairness ==
    /\ \A p \in Pumps : WF_vars(PumpLoop(p) \/ PumpTransfer(p))
    /\ WF_vars(GenStep)
    /\ WF_vars(CtlLock \/ StartTransfer("ctl") \/ CtlUnlock)
    /\ WF_vars(UnpluggedJoin)

SpecFallbackFair == InitFallback /\ [][NextFallback]_vars /\ Fairness

----------------------------------------------------------------------------
(* Specification of part 1 *)

Init ==
    /\ InitDeframer
    /\ InitStream
    /\ fVideoFrame = <<0, 0>>
    /\ camera = TheCamera
    /\ env = "none"

Next ==
    \/ SeqWrite
    \/ SeqAcceptVideoFrame
    \/ SeqFlush
    \/ SeqWaitGetFrame

Spec == Init /\ [][Next]_vars

----------------------------------------------------------------------------
(* Properties of the deframer's data path (specification Spec). *)

LastIsWrite == last.op = "Write" /\ HeaderValid(last.buf)

(* C1: in marker-delimited mode (expected size 0), when a packet carrying
   payload arrives whose FID bit differs from the deframer's current FID
   after payload has accumulated, and the ready queue has room, that Write
   publishes exactly one frame and the frame is the payload accumulated
   since the previous frame boundary. *)
C1_FidFlipPublishesAccumulated ==
    (/\ LastIsWrite
     /\ last.exp = 0
     /\ PayloadSize(last.buf) > 0
     /\ FidBit(last.buf) # last.fid0
     /\ last.accum0 # <<>>
     /\ last.qlen0 < MAXFRAMEBUF)
        => last.pub = <<last.accum0>>

(* The case of C1 occurs: a FID flip arrives in marker-delimited mode after
   two payload packets have accumulated (scenario S2). *)
C1_Witness ==
    /\ LastIsWrite
    /\ last.exp = 0
    /\ PayloadSize(last.buf) > 0
    /\ FidBit(last.buf) # last.fid0
    /\ Len(last.accum0) >= 3

(* C2: in fixed-size mode every frame a Write places on the ready queue has
   exactly the expected frame size as its length. *)
C2_FixedSizeFramesExact ==
    (LastIsWrite /\ last.exp > 0)
        => \A i \in 1 .. Len(last.pub) : Len(last.pub[i]) = last.exp

(* The case of C2 occurs: a Write in fixed-size mode publishes a frame that
   EOF padding completed. *)
C2_Witness ==
    /\ LastIsWrite
    /\ last.exp > 0
    /\ EofBit(last.buf)
    /\ Len(last.pub) = 1
    /\ Len(last.accum0) + PayloadSize(last.buf) < last.exp

(* C3: a valid packet with the EOF bit set and zero payload bytes finalizes
   the frame in progress: in marker-delimited mode the accumulated payload
   is published, in fixed-size mode one frame of the expected size is. *)
C3_EmptyEofFinalizes ==
    (/\ LastIsWrite
     /\ PayloadSize(last.buf) = 0
     /\ EofBit(last.buf)
     /\ last.accum0 # <<>>
     /\ last.qlen0 < MAXFRAMEBUF)
        => /\ Len(last.pub) = 1
           /\ IF last.exp = 0
              THEN last.pub[1] = last.accum0
              ELSE Len(last.pub[1]) = last.exp

(* The case of C3 occurs: a header-only EOF packet arrives while a frame is
   in progress. *)
C3_Witness ==
    /\ LastIsWrite
    /\ PayloadSize(last.buf) = 0
    /\ EofBit(last.buf)
    /\ last.accum0 # <<>>

----------------------------------------------------------------------------
(* Properties of the threads of a session. *)

PumpSubmits == \E p \in Pumps : PumpTransfer(p)

(* C4: once HandleStart has started the stream, and unless a Stop or a
   disconnect is requested, the pump goes on submitting transfers for ever:
   no fallback or recovery leaves the stream stopped or the pump thread
   blocked for good (specification SpecFallbackFair). *)
C4_DeliveryContinues ==
    \/ []<>(~hist.streaming)
    \/ []<><<PumpSubmits>>_vars

(* C5: a thread that runs StopTransfer or StartTransfer (the stop, the
   probe/commit and SET_INTERFACE requests and the restart) owns the device
   lock while it does; this includes the delivery thread's fallback and
   recovery. *)
C5_StopStartUnderDeviceLock ==
    [][\A t \in {"ctl", "gen"} :
          (StopTransfer(t) \/ StartTransfer(t)) => fLocker.owner = t]_vars

(* C6: the pump adds a completed frame to the ready queue, and the delivery
   thread removes one, only as holder of the deframer's lock: the pump never
   changes the queue while another thread holds that lock, and GetFrame
   removes a frame only while its caller holds it. *)
C6_QueueChangesUnderQueueLock ==
    [][/\ (PumpSubmits /\ fFrames' # fFrames) => fDeframerLocker = "none"
       /\ GenGetFrame => fDeframerLocker = "gen"]_vars

(* C7: while the transfer is enabled, the deframer's fill state (the fill
   buffer and its position, the current FID, the current frame) is changed
   only by a step of the pump thread. *)
C7_FillStateWrittenByPumpOnly ==
    [][(/\ fTransferEnabled = 1
        /\ <<fID, fFixedBuffer, fCurrentFrame>>' # <<fID, fFixedBuffer, fCurrentFrame>>)
          => PumpSubmits]_vars

Joining == {"stop_wait", "stop_relock", "u_wait"}

(* C8: a thread that has cleared the running flag in StopTransfer or in
   Unplugged and waits for the pump thread always gets past the wait and
   returns (specification SpecFallbackFair). *)
C8_StopReturns ==
    \A t \in Callers : (pc[t] \in Joining) ~> (pc[t] \notin Joining)

StopReturned == \E t \in {"ctl", "gen"} : StopRelock(t)
UnpluggedReturned == (Unplugged \/ UnpluggedJoin) /\ pc'["usb"] = "done"

(* C9: when StopTransfer or Unplugged returns and no StartTransfer has
   enabled the transfer again, every pump thread has ended. *)
C9_PumpExitedOnReturn ==
    [][((StopReturned \/ UnpluggedReturned) /\ fTransferEnabled' = 0)
          => \A p \in Pumps : pc'[p] = "free"]_vars

(* C10: when a fall condition holds below the last level, the level goes up
   by exactly one and the stream is restarted at that level's resolution.
   For the MJPEG size monitor: the step that lowers the resolution raises
   fCurrentResolutionLevel by one.  For the packet-loss evaluation: with the
   camera attached, a fallback triggered at level0 ends restarted, at level
   level0 + 1 and with that level's resolution. *)
C10_FallRaisesLevelAndRestarts ==
    [][/\ (/\ GenGetFrame
           /\ fVideoFrame' # fVideoFrame
           /\ fCurrentResolutionLevel < _GetMaxResolutionLevel)
             => fCurrentResolutionLevel' = fCurrentResolutionLevel + 1
       /\ (/\ GenRestarted \/ GenNotRestarted
           /\ op["gen"] = "Fallback"
           /\ attached
           /\ hist.level0 >= 0
           /\ hist.level0 < _GetMaxResolutionLevel)
             => /\ GenRestarted
                /\ fCurrentResolutionLevel = hist.level0 + 1
                /\ fVideoFrame = _GetResolutionAtLevel(fCurrentResolutionLevel)]_vars

(* C11: the stream format (fVideoFrame and the deframer's expected frame
   size) changes only while no pump session is active: the transfer is
   disabled and every pump thread has ended, as it is between the
   StopTransfer and the StartTransfer of a restart. *)
C11_FormatFixedWhileStreaming ==
    [][(<<fVideoFrame, fExpectedFrameSize>>' # <<fVideoFrame, fExpectedFrameSize>>)
          => (fTransferEnabled = 0 /\ \A p \in Pumps : pc[p] = "free")]_vars

(* C13: with the camera attached, when a packet-loss evaluation finds the
   loss at or below the threshold for the whole recovery delay and the
   resolution level is above 0, it starts a recovery; and a recovery begun
   at level0 > 0 ends restarted, at level level0 - 1 and with that level's
   resolution. *)
C13_RecoveryLowersLevelAndRestarts ==
    [][/\ (/\ GenEvaluatePacketLoss
           /\ hist'.stable
           /\ attached
           /\ fCurrentResolutionLevel > 0)
             => pc'["gen"] = "rc_begin"
       /\ (/\ GenRestarted \/ GenNotRestarted
           /\ op["gen"] = "Recovery"
           /\ attached
           /\ hist.level0 > 0)
             => /\ GenRestarted
                /\ fCurrentResolutionLevel = hist.level0 - 1
                /\ fVideoFrame = _GetResolutionAtLevel(fCurrentResolutionLevel)]_vars


(* C14: the resolution level stays within 0 .. _GetMaxResolutionLevel; a
   fallback that the packet-loss evaluation starts at the maximum level ends
   with the level, the video frame, the transfer flag and the pump thread as
   they were, without passing through the stop, accept or start steps; and
   the cannot-fall-further warning is logged at most once while the level
   stays the same. *)
C14_LevelCappedAtMax ==
    [][/\ fCurrentResolutionLevel' \in 0 .. _GetMaxResolutionLevel'
       /\ hist'.warnings <= 1
       /\ (/\ op["gen"] = "Fallback"
           /\ hist.level0 >= _GetMaxResolutionLevel
           /\ pc'["gen"] # pc["gen"])
             => /\ pc'["gen"] \in {"fb_fail", "wait"}
                /\ UNCHANGED <<fCurrentResolutionLevel, fVideoFrame,
                               fTransferEnabled, fPumpThread>>]_vars

(* A fall condition occurred at the maximum level with the stream running:
   the warning has been logged and the fallback is returning an error. *)
C14_Witness ==
    /\ pc["gen"] = "fb_fail"
    /\ op["gen"] = "Fallback"
    /\ hist.level0 = _GetMaxResolutionLevel
    /\ fCurrentResolutionLevel = _GetMaxResolutionLevel
    /\ _GetMaxResolutionLevel > 0
    /\ hist.warnings = 1
    /\ fFallbackWarningShown
    /\ attached
    /\ fTransferEnabled = 1

----------------------------------------------------------------------------
(* Part 3: negotiation, the pump's handling of failed transfers, the
   high-bandwidth detection and the packet counters.  The control thread
   ("ctl") calls StartTransfer and StopTransfer, "pump1" is the pump thread
   and "gen" the delivery thread in FillFrameBuffer.  The locks, the bytes of
   the packets and the resolution fallback are those of parts 1 and 2 and
   are not followed here. *)

(* _OnHighBandwidthFailure line 3970 *)
kFailureThreshold == 5

(* Bounds of part 3: at most MaxFailures whole transfers fail in a row and
   fHighBandwidthFailures is followed up to MaxFailures (the code compares
   it with kFailureThreshold only), the camera sends at most MaxPackets
   packets in a session, and an evaluation window stays open only while it
   holds at most MaxWindow packets. *)
MaxFailures == 5
MaxPackets == 1
MaxWindow == 1

(* What survives in the model of every step of part 3. *)
tpFrame == <<dfVars, fVideoFrame, op, fLocker, fDeframerLocker, waitFor, fDevice,
             fRunning, fCurrentResolutionLevel, fTargetResolutionLevel,
             fFallbackActive, fFallbackWarningShown, fStableStartTime,
             fExpectedMJPEGMinSize, fSelectedResolutionIndex, hist, camera, env,
             fErrorHistogram,
             errorCounts, consecutive_errors, rlast, fFramePool, heap, f,
             fAudioRingBuffer, fAudioRingHead, fAudioRingTail,
             fAudioTransferRunning, apump, areader, actl>>

(* UVCCamDevice::_ShouldUseHighBandwidth *)
_ShouldUseHighBandwidth ==
    IF env = "disable" THEN FALSE
    ELSE IF env = "force" THEN TRUE
    ELSE IF fHighBandwidthTested /\ ~fHighBandwidthWorks THEN FALSE
    ELSE TRUE

(* _SelectBestAlternate lines 1518-1521: wMaxPacketSize decoded *)
BasePacketSize(raw) == raw % 2048
Transactions(raw) == ((raw \div 2048) % 4) + 1

(* lines 1512-1513 and 1541-1547: the endpoints the scan does not skip *)
Considered(ep) ==
    /\ ep[2]
    /\ ep[3]
    /\ ~(Transactions(ep[1]) > 1 /\ ~_ShouldUseHighBandwidth)

(* line 1556 *)
EffectiveBandwidth(raw) ==
    IF Transactions(raw) > 1 /\ _ShouldUseHighBandwidth
    THEN BasePacketSize(raw) * Transactions(raw)
    ELSE BasePacketSize(raw)

(* The two loops of _SelectBestAlternate, lines 1506-1564, from alternate
   i - 1 and endpoint j - 1 on; best is <<bestBandwidth, alternateIndex,
   endpointIndex>>.  requiredBandwidth (lines 1490-1497) is computed and
   logged and takes no part in the choice. *)
RECURSIVE ScanEndpoints(_, _, _)
ScanEndpoints(i, j, best) ==
    IF i > Len(camera.alts) THEN best
    ELSE IF j > Len(camera.alts[i]) THEN ScanEndpoints(i + 1, 1, best)
    ELSE LET ep == camera.alts[i][j]
         IN  IF Considered(ep) /\ EffectiveBandwidth(ep[1]) > best[1]
             THEN ScanEndpoints(i, j + 1, <<EffectiveBandwidth(ep[1]), i - 1, j - 1>>)
             ELSE ScanEndpoints(i, j + 1, best)

BestEndpoint == ScanEndpoints(1, 1, <<0, 0, 0>>)

(* _ProbeCommitFormat line 1353: the length of the probe control block *)
ProbeLength == IF camera.version > 256 THEN 34 ELSE 26

(* What the camera does with a probe and commit: the bytes the probe SET_CUR
   transferred (-1 for an error code), the bytes the probe GET_CUR
   transferred, max_video_frame_size and max_payload_transfer_size of the
   block the camera has for that GET_CUR, and the bytes the commit SET_CUR
   transferred.  A camera that is gone answers nothing. *)
AnswerKind(a) ==
    IF a.probe # ProbeLength THEN "short_probe"
    ELSE IF a.getcur # ProbeLength THEN "no_response"
    ELSE IF a.commit # ProbeLength THEN "short_commit"
    ELSE IF a.frame = 0 \/ a.payload = 0 THEN "zero"
    ELSE "ok"

ProbeAnswers ==
    IF ~attached
    THEN { [probe |-> 0 - 1, getcur |-> 0 - 1, frame |-> 0, payload |-> 0,
            commit |-> 0 - 1] }
    ELSE { a \in
         { [probe |-> ProbeLength, getcur |-> ProbeLength, frame |-> 614400,
            payload |-> camera.payload, commit |-> ProbeLength],
           [probe |-> ProbeLength, getcur |-> ProbeLength, frame |-> 0,
            payload |-> camera.payload, commit |-> ProbeLength],
           [probe |-> ProbeLength, getcur |-> ProbeLength, frame |-> 614400,
            payload |-> 0, commit |-> ProbeLength],
           [probe |-> ProbeLength - 8, getcur |-> ProbeLength, frame |-> 614400,
            payload |-> camera.payload, commit |-> ProbeLength],
           [probe |-> ProbeLength, getcur |-> ProbeLength, frame |-> 614400,
            payload |-> camera.payload, commit |-> ProbeLength - 8],
           [probe |-> ProbeLength, getcur |-> 0 - 1, frame |-> 614400,
            payload |-> camera.payload, commit |-> ProbeLength] } :
             AnswerKind(a) \in camera.answers }

(* The control blocks of one negotiation as <<frame_index,
   max_video_frame_size, max_payload_transfer_size>>: the request that
   _ProbeCommitFormat builds (lines 1297-1351, the sizes left zero by the
   memset), and the response buffer after GET_CUR: the camera's block, or
   the zeroes of the memset of line 1376 when GET_CUR transferred nothing
   (its result is not looked at, lines 1377-1379). *)
ProbeRequest == <<1, 0, 0>>
ProbeResponse(a) ==
    IF a.getcur = ProbeLength THEN <<1, a.frame, a.payload>> ELSE <<0, 0, 0>>

(* _ProbeCommitFormat lines 1362-1421: B_OK when both SET_CUR transferred
   the whole block; a zero size in the response is logged only. *)
_ProbeCommitFormat(a) == a.probe = ProbeLength /\ a.commit = ProbeLength

(* UVCCamDevice::StartTransfer: _ProbeCommitFormat, _SelectBestAlternate
   (SetAlternate is called when the alternate changes, and can fail), then
   CamDevice::StartTransfer: EALREADY if the transfer is enabled, else the
   pump thread is spawned and resumed. *)
UVCCamDevice_StartTransfer ==
    /\ pc["ctl"] = "idle"
    /\ ~camera.bulk
    /\ fDevice
    /\ \E a \in ProbeAnswers, setAlternateOk \in BOOLEAN :
         LET committed == _ProbeCommitFormat(a)
             best == BestEndpoint
             raw == camera.alts[best[2] + 1][best[3] + 1][1]
             selected == /\ committed
                         /\ best[1] > 0
                         /\ fCurrentVideoAlternate # best[2] => setAlternateOk
             spawned == selected /\ fTransferEnabled = 0
         IN  /\ fCurrentVideoAlternate = best[2] => setAlternateOk
             /\ IF committed
                THEN /\ fMaxVideoFrameSize' = ProbeResponse(a)[2]
                     /\ fMaxPayloadTransferSize' = ProbeResponse(a)[3]
                ELSE UNCHANGED probeVars
             /\ IF selected
                THEN /\ fCurrentVideoAlternate' = best[2]
                     /\ fIsoIn' = TRUE
                     /\ fIsoMaxPacketSize' = best[1]
                     /\ fUsingHighBandwidth' = (Transactions(raw) > 1)
                ELSE UNCHANGED <<fCurrentVideoAlternate, fIsoIn, fIsoMaxPacketSize,
                                 fUsingHighBandwidth>>
             /\ IF spawned
                THEN /\ pc["pump1"] = "free"
                     /\ fPumpThread' = "pump1"
                     /\ fTransferEnabled' = 1
                     /\ pc' = [pc EXCEPT !["pump1"] = "begin"]
                ELSE UNCHANGED <<fPumpThread, fTransferEnabled, pc>>
             /\ thist' = [thist EXCEPT !.answer = AnswerKind(a),
                                       !.echo = IF a.getcur = ProbeLength
                                                THEN <<1, a.frame, a.payload>>
                                                ELSE <<>>,
                                       !.commit = IF a.probe = ProbeLength
                                                  THEN ProbeResponse(a) ELSE <<>>,
                                       !.selected = selected,
                                       !.run = IF selected THEN 0 ELSE @]
    /\ UNCHANGED <<fHighBandwidthTested, fHighBandwidthWorks, fHighBandwidthFailures,
                   consecutiveFailures, fPacketSuccessCount, fPacketErrorCount,
                   fLastPacketSuccessCount, fLastPacketErrorCount,
                   fEvalWindowPackets, fEvalWindowErrors, fEvalWindowStartTime,
                   genFailures, attached, tpFrame>>

(* CamDevice::StartTransfer of a device class that streams over a bulk
   endpoint. *)
CamDevice_StartTransfer ==
    /\ pc["ctl"] = "idle"
    /\ camera.bulk
    /\ fTransferEnabled = 0
    /\ pc["pump1"] = "free"
    /\ fPumpThread' = "pump1"
    /\ fTransferEnabled' = 1
    /\ pc' = [pc EXCEPT !["pump1"] = "begin"]
    /\ UNCHANGED <<hbVars, probeVars, fIsoMaxPacketSize, consecutiveFailures,
                   fPacketSuccessCount, fPacketErrorCount, fLastPacketSuccessCount,
                   fLastPacketErrorCount, fEvalWindowPackets, fEvalWindowErrors,
                   fEvalWindowStartTime, genFailures, thist, attached, fIsoIn,
                   fCurrentVideoAlternate, tpFrame>>

(* UVCCamDevice::StopTransfer: _SelectIdleAlternate, then
   CamDevice::StopTransfer up to wait_for_thread (EALREADY when no transfer
   is enabled); a bulk device class has CamDevice::StopTransfer only. *)
UVCCamDevice_StopTransfer ==
    /\ pc["ctl"] = "idle"
    /\ IF camera.bulk THEN UNCHANGED <<fCurrentVideoAlternate, fIsoIn>>
       ELSE _SelectIdleAlternate
    /\ IF fTransferEnabled = 0
       THEN UNCHANGED <<fTransferEnabled, pc, thist>>
       ELSE /\ fTransferEnabled' = 0
            /\ pc' = [pc EXCEPT !["ctl"] = "join"]
            /\ thist' = [thist EXCEPT !.stopped = TRUE]
    /\ UNCHANGED <<hbVars, probeVars, fIsoMaxPacketSize, consecutiveFailures,
                   fPacketSuccessCount, fPacketErrorCount, fLastPacketSuccessCount,
                   fLastPacketErrorCount, fEvalWindowPackets, fEvalWindowErrors,
                   fEvalWindowStartTime, genFailures, attached, fPumpThread,
                   tpFrame>>

(* wait_for_thread(fPumpThread) returns and StopTransfer with it *)
StopTransferJoin ==
    /\ pc["ctl"] = "join"
    /\ pc["pump1"] = "free"
    /\ pc' = [pc EXCEPT !["ctl"] = "idle"]
    /\ UNCHANGED <<hbVars, probeVars, fIsoMaxPacketSize, consecutiveFailures,
                   fPacketSuccessCount, fPacketErrorCount, fLastPacketSuccessCount,
                   fLastPacketErrorCount, fEvalWindowPackets, fEvalWindowErrors,
                   fEvalWindowStartTime, genFailures, thist, attached, fIsoIn,
                   fCurrentVideoAlternate, fTransferEnabled, fPumpThread, tpFrame>>

(* The camera is pulled from the bus. *)
Detach ==
    /\ attached
    /\ attached' = FALSE
    /\ UNCHANGED <<hbVars, probeVars, fIsoMaxPacketSize, consecutiveFailures,
                   fPacketSuccessCount, fPacketErrorCount, fLastPacketSuccessCount,
                   fLastPacketErrorCount, fEvalWindowPackets, fEvalWindowErrors,
                   fEvalWindowStartTime, genFailures, thist, fIsoIn,
                   fCurrentVideoAlternate, fTransferEnabled, fPumpThread, pc,
                   tpFrame>>

(* fHighBandwidthFailures++ on the value v the increment read *)
Incremented(v) == IF v < MaxFailures THEN v + 1 ELSE v

(* UVCCamDevice::_OnHighBandwidthFailure, v being the value of
   fHighBandwidthFailures that the increment read *)
_OnHighBandwidthFailure(v) ==
    /\ fHighBandwidthFailures' = Incremented(v)
    /\ IF Incremented(v) >= kFailureThreshold /\ fUsingHighBandwidth
       THEN /\ fHighBandwidthTested' = TRUE
            /\ fHighBandwidthWorks' = FALSE
       ELSE UNCHANGED <<fHighBandwidthTested, fHighBandwidthWorks>>

(* UVCCamDevice::_ResetHighBandwidthState *)
_ResetHighBandwidthState ==
    /\ fHighBandwidthFailures' = 0
    /\ IF fUsingHighBandwidth /\ ~fHighBandwidthTested
       THEN /\ fHighBandwidthTested' = TRUE
            /\ fHighBandwidthWorks' = TRUE
       ELSE UNCHANGED <<fHighBandwidthTested, fHighBandwidthWorks>>

(* CamDevice::DataPumpThread up to its loop: the bulk path (lines 818-831)
   or the isochronous path, which zeroes the packet counters and its local
   failure count (lines 905-911). *)
DataPumpThread ==
    /\ pc["pump1"] = "begin"
    /\ IF camera.bulk
       THEN /\ pc' = [pc EXCEPT !["pump1"] = "bulk"]
            /\ UNCHANGED <<fPacketSuccessCount, fPacketErrorCount,
                           consecutiveFailures>>
       ELSE /\ pc' = [pc EXCEPT !["pump1"] = "iso"]
            /\ fPacketSuccessCount' = 0
            /\ fPacketErrorCount' = 0
            /\ consecutiveFailures' = 0
    /\ UNCHANGED <<hbVars, probeVars, fIsoMaxPacketSize, fLastPacketSuccessCount,
                   fLastPacketErrorCount, fEvalWindowPackets, fEvalWindowErrors,
                   fEvalWindowStartTime, genFailures, thist, attached, fIsoIn,
                   fCurrentVideoAlternate, fTransferEnabled, fPumpThread, tpFrame>>

(* How a transfer ends: "ok" (len >= 0; for a bulk transfer len > 0),
   "empty" (a bulk transfer of 0 bytes), "timeout" (B_TIMED_OUT) or
   "disconnected" (B_DEV_NOT_READY, which ClassifyUSBError classifies as
   USB_ERROR_DISCONNECTED). *)
IsoOutcomes ==
    { len \in (IF attached THEN {"ok", "timeout"} ELSE {"disconnected"}) :
        /\ len # "ok" => consecutiveFailures < MaxFailures
        /\ len = "timeout" => camera.faults = "transfers" }
BulkOutcomes == IF attached THEN {"ok", "empty", "timeout"} ELSE {"disconnected"}

(* The packets of one isochronous transfer as <<with status B_OK and data,
   with another status>>. *)
PacketOutcomes ==
    { pk \in { <<0, 0>>, <<1, 0>>, <<0, 1>> } :
        /\ fPacketSuccessCount + fPacketErrorCount + pk[1] + pk[2] <= MaxPackets
        /\ pk[1] > 0 => attached
        /\ pk # <<0, 0>> => camera.faults = "packets" }

(* One turn of the isochronous loop, lines 914-1074: the loop ends when the
   transfer is disabled or fIsoIn is NULL; else one transfer, the failure
   bookkeeping of lines 954-976 (whatever the error is, the loop goes on)
   and the packet descriptors, which are processed after a failed transfer
   too. *)
IsochronousLoop ==
    /\ pc["pump1"] = "iso"
    /\ IF fTransferEnabled = 0 \/ ~fIsoIn
       THEN /\ pc' = [pc EXCEPT !["pump1"] = "free"]
            /\ UNCHANGED <<hbVars, consecutiveFailures, fPacketSuccessCount,
                           fPacketErrorCount, thist>>
       ELSE /\ \E len \in IsoOutcomes, pk \in PacketOutcomes :
                 /\ IF len # "ok"
                    THEN /\ consecutiveFailures' =
                              IF consecutiveFailures + 1 >= 50 THEN 0
                              ELSE consecutiveFailures + 1
                         /\ _OnHighBandwidthFailure(fHighBandwidthFailures)
                    ELSE /\ consecutiveFailures' = 0
                         /\ IF consecutiveFailures > 0
                            THEN _ResetHighBandwidthState
                            ELSE UNCHANGED <<fHighBandwidthTested, fHighBandwidthWorks,
                                             fHighBandwidthFailures>>
                 /\ fPacketSuccessCount' = fPacketSuccessCount + pk[1]
                 /\ fPacketErrorCount' = fPacketErrorCount + pk[2]
                 /\ thist' = [thist EXCEPT
                                !.len = len,
                                !.data = @ \/ pk[1] > 0,
                                !.run = IF len # "ok" /\ fUsingHighBandwidth
                                        THEN (IF @ < kFailureThreshold THEN @ + 1 ELSE @)
                                        ELSE 0]
            /\ UNCHANGED <<pc, fUsingHighBandwidth>>
    /\ UNCHANGED <<probeVars, fIsoMaxPacketSize, fLastPacketSuccessCount,
                   fLastPacketErrorCount, fEvalWindowPackets, fEvalWindowErrors,
                   fEvalWindowStartTime, genFailures, attached, fIsoIn,
                   fCurrentVideoAlternate, fTransferEnabled, fPumpThread, tpFrame>>

(* One turn of the bulk loop, lines 832-872: a transfer that brought nothing
   is tried again unless its error is classified as a disconnect, which ends
   the loop. *)
BulkLoop ==
    /\ pc["pump1"] = "bulk"
    /\ IF fTransferEnabled = 0
       THEN /\ pc' = [pc EXCEPT !["pump1"] = "free"]
            /\ UNCHANGED thist
       ELSE \E len \in BulkOutcomes :
              /\ pc' = [pc EXCEPT !["pump1"] =
                                     IF len = "disconnected" THEN "free" ELSE "bulk"]
              /\ thist' = [thist EXCEPT !.len = len, !.data = @ \/ len = "ok"]
    /\ UNCHANGED <<hbVars, probeVars, fIsoMaxPacketSize, consecutiveFailures,
                   fPacketSuccessCount, fPacketErrorCount, fLastPacketSuccessCount,
                   fLastPacketErrorCount, fEvalWindowPackets, fEvalWindowErrors,
                   fEvalWindowStartTime, genFailures, attached, fIsoIn,
                   fCurrentVideoAlternate, fTransferEnabled, fPumpThread, tpFrame>>

(* FillFrameBuffer lines 2868-2885: WaitFrame timed out while a
   high-bandwidth endpoint is in use, and _OnHighBandwidthFailure begins:
   the delivery thread reads fHighBandwidthFailures.  Nothing orders this
   increment and the pump thread's accesses to the same field. *)
FillFrameBufferTimeout ==
    /\ pc["gen"] = "wait"
    /\ fUsingHighBandwidth
    /\ genFailures' = fHighBandwidthFailures
    /\ pc' = [pc EXCEPT !["gen"] = "hb_failure"]
    /\ UNCHANGED <<hbVars, probeVars, fIsoMaxPacketSize, consecutiveFailures,
                   fPacketSuccessCount, fPacketErrorCount, fLastPacketSuccessCount,
                   fLastPacketErrorCount, fEvalWindowPackets, fEvalWindowErrors,
                   fEvalWindowStartTime, thist, attached, fIsoIn,
                   fCurrentVideoAlternate, fTransferEnabled, fPumpThread, tpFrame>>

(* The rest of the delivery thread's _OnHighBandwidthFailure: the
   incremented value is stored and compared. *)
FillFrameBufferFailure ==
    /\ pc["gen"] = "hb_failure"
    /\ _OnHighBandwidthFailure(genFailures)
    /\ genFailures' = 0 - 1
    /\ pc' = [pc EXCEPT !["gen"] = "wait"]
    /\ UNCHANGED <<fUsingHighBandwidth, probeVars, fIsoMaxPacketSize,
                   consecutiveFailures, fPacketSuccessCount, fPacketErrorCount,
                   fLastPacketSuccessCount, fLastPacketErrorCount,
                   fEvalWindowPackets, fEvalWindowErrors, fEvalWindowStartTime,
                   thist, attached, fIsoIn, fCurrentVideoAlternate,
                   fTransferEnabled, fPumpThread, tpFrame>>

Magnitude(n) == IF n < 0 THEN 0 - n ELSE n

(* FillFrameBuffer lines 3003-3011 for a frame the deframer delivered: the
   packet counters' growth since the last call is added to the evaluation
   window (uint32 arithmetic), then _EvaluatePacketLoss empties the window
   when it opens or closes it (lines 3717-3722, 3731-3733, 3761-3763) and
   leaves it alone while the evaluation interval has not elapsed. *)
FillFrameBufferStatistics ==
    /\ pc["gen"] = "wait"
    /\ thist.data
    /\ LET deltaSuccess == fPacketSuccessCount - fLastPacketSuccessCount
           deltaError == fPacketErrorCount - fLastPacketErrorCount
           packets == fEvalWindowPackets + deltaSuccess + deltaError
           errors == fEvalWindowErrors + deltaError
       IN  /\ fLastPacketSuccessCount' = fPacketSuccessCount
           /\ fLastPacketErrorCount' = fPacketErrorCount
           /\ \E elapsed \in BOOLEAN :
                /\ ~elapsed => Magnitude(packets) <= MaxWindow /\ Magnitude(errors) <= MaxWindow
                /\ IF fEvalWindowStartTime # 0 /\ ~elapsed
                   THEN /\ fEvalWindowPackets' = packets
                        /\ fEvalWindowErrors' = errors
                   ELSE /\ fEvalWindowPackets' = 0
                        /\ fEvalWindowErrors' = 0
                /\ fEvalWindowStartTime' = 1
    /\ UNCHANGED <<hbVars, probeVars, fIsoMaxPacketSize, consecutiveFailures,
                   fPacketSuccessCount, fPacketErrorCount, genFailures, thist,
                   attached, fIsoIn, fCurrentVideoAlternate, fTransferEnabled,
                   fPumpThread, pc, tpFrame>>

----------------------------------------------------------------------------
(* Specification SpecTransport: any of the cameras under any setting of the
   environment, the node started, the stream started and stopped at will. *)

InitTransport ==
    /\ InitDeframerFields
    /\ fIsMJPEG
    /\ fVideoFrame = FrameList[1]
    /\ fExpectedFrameSize = 0
    /\ pc = [t \in Threads |-> IF t \in Pumps THEN "free"
                                ELSE IF t = "gen" THEN "wait" ELSE "idle"]
    /\ op = [t \in {"ctl", "gen"} |-> "none"]
    /\ fLocker = [owner |-> "none", count |-> 0]
    /\ fDeframerLocker = "none"
    /\ fTransferEnabled = 0
    /\ fPumpThread = "none"
    /\ waitFor = [t \in Callers |-> "none"]
    /\ fIsoIn = FALSE
    /\ fCurrentVideoAlternate = 0
    /\ fDevice = TRUE
    /\ attached = TRUE
    /\ fRunning = TRUE
    /\ fCurrentResolutionLevel = 0
    /\ fTargetResolutionLevel = 0
    /\ fFallbackActive = FALSE
    /\ fFallbackWarningShown = FALSE
    /\ fEvalWindowStartTime = 0
    /\ fStableStartTime = 0
    /\ fExpectedMJPEGMinSize = 0
    /\ fSelectedResolutionIndex = 0
    /\ hist = [streaming |-> FALSE, level0 |-> 0 - 1, stable |-> FALSE,
                warnings |-> 0]
    /\ InitTransportFields
    /\ camera \in Cameras
    /\ env \in Environments(camera)

NextTransport ==
    \/ UVCCamDevice_StartTransfer
    \/ CamDevice_StartTransfer
    \/ UVCCamDevice_StopTransfer
    \/ StopTransferJoin
    \/ Detach
    \/ DataPumpThread
    \/ IsochronousLoop
    \/ BulkLoop
    \/ FillFrameBufferTimeout
    \/ FillFrameBufferFailure
    \/ FillFrameBufferStatistics

SpecTransport == InitTransport /\ [][NextTransport]_vars

(* The pump thread and the delivery thread run; nobody is forced to call
   StartTransfer or StopTransfer or to pull the camera. *)
FairnessTransport ==
    /\ WF_vars(DataPumpThread \/ IsochronousLoop \/ BulkLoop)
    /\ WF_vars(FillFrameBufferFailure)
    /\ WF_vars(StopTransferJoin)

SpecTransportFair == InitTransport /\ [][NextTransport]_vars /\ FairnessTransport


----------------------------------------------------------------------------
(* Properties of the negotiation, the pump's bookkeeping and the packet
   counters (specifications SpecTransport and SpecTransportFair). *)

(* C12: when the pump thread of a stream that was started after a
   StopTransfer begins its isochronous loop, the packet success and error
   counts, the packets and errors of the evaluation window and the error
   histogram are all zero. *)
C12_CountersZeroAfterRestart ==
    [][(DataPumpThread /\ thist.stopped /\ ~camera.bulk)
          => /\ fPacketSuccessCount' = 0
             /\ fPacketErrorCount' = 0
             /\ fEvalWindowPackets' = 0
             /\ fEvalWindowErrors' = 0
             /\ fErrorHistogram' = 0]_vars

(* C15: once five whole transfers in a row have failed while a
   high-bandwidth endpoint is in use, high bandwidth is known to be broken
   (tested and not working); and, with no override in the environment, a
   StartTransfer that selects an alternate while high bandwidth is known to
   be broken selects an endpoint with one transaction per microframe. *)
C15_FiveFailuresDemoteHighBandwidth ==
    [][/\ thist'.run >= kFailureThreshold
            => fHighBandwidthTested' /\ ~fHighBandwidthWorks'
       /\ (/\ UVCCamDevice_StartTransfer
           /\ fHighBandwidthTested /\ ~fHighBandwidthWorks
           /\ env = "none"
           /\ thist'.selected)
            => ~fUsingHighBandwidth']_vars

(* C16: with no override in the environment, whenever a stream runs on a
   high-bandwidth endpoint of an attached camera that also has an
   isochronous input endpoint with one transaction per microframe, and high
   bandwidth is known to be broken, the stream eventually runs on an endpoint
   with one transaction per microframe (or the camera is pulled, or the
   stream is stopped from outside). *)
C16_DemotionRestartsStream ==
    (/\ fTransferEnabled = 1
     /\ fUsingHighBandwidth
     /\ fHighBandwidthTested /\ ~fHighBandwidthWorks
     /\ env = "none"
     /\ attached
     /\ \E i \in 1 .. Len(camera.alts) : \E j \in 1 .. Len(camera.alts[i]) :
           LET ep == camera.alts[i][j]
           IN  ep[2] /\ ep[3] /\ Transactions(ep[1]) = 1)
      ~> (\/ fTransferEnabled = 1 /\ fIsoIn /\ ~fUsingHighBandwidth
          \/ ~attached
          \/ fTransferEnabled = 0)

(* C17: after a whole isochronous transfer that succeeded, the pump loop's
   consecutive-failure count and the high-bandwidth failure count are both
   zero. *)
C17_SuccessResetsFailureCounters ==
    [][(/\ pc["pump1"] = "iso" /\ fTransferEnabled # 0 /\ fIsoIn
        /\ IsochronousLoop
        /\ thist'.len = "ok")
          => /\ consecutiveFailures' = 0
             /\ fHighBandwidthFailures' = 0]_vars

(* C18: a transfer of the pump loop, bulk or isochronous, that fails with an
   error classified as a disconnect ends the pump thread. *)
C18_DisconnectEndsPumpLoop ==
    [][(/\ \/ pc["pump1"] = "iso" /\ fIsoIn /\ IsochronousLoop
           \/ pc["pump1"] = "bulk" /\ BulkLoop
        /\ fTransferEnabled # 0
        /\ thist'.len = "disconnected")
          => pc'["pump1"] = "free"]_vars

(* C19: a StartTransfer whose probe SET_CUR or commit SET_CUR transferred
   fewer bytes than the control block has, or whose probe response has a
   zero max_video_frame_size or max_payload_transfer_size, selects no
   alternate, leaves the transfer flag as it was and spawns no pump
   thread. *)
C19_BadProbeFailsStart ==
    [][(/\ UVCCamDevice_StartTransfer
        /\ thist'.answer \in {"short_probe", "short_commit", "zero"})
          => /\ ~thist'.selected
             /\ fTransferEnabled' = fTransferEnabled
             /\ pc'["pump1"] = pc["pump1"]]_vars

(* C20: when StartTransfer has selected an alternate, the selected endpoint
   is an isochronous input endpoint that the high-bandwidth gate permits,
   its effective bandwidth is at least the max_payload_transfer_size of the
   commit, and no permitted endpoint has a larger effective bandwidth. *)
C20_SelectsMaximumSatisfyingRequired ==
    [][(UVCCamDevice_StartTransfer /\ thist'.selected /\ thist'.answer = "ok")
          => LET alternate == camera.alts[fCurrentVideoAlternate' + 1]
                 permitted == { ep \in UNION { { a[j] : j \in 1 .. Len(a) } :
                                         a \in { camera.alts[i] : i \in 1 .. Len(camera.alts) } } :
                                  Considered(ep) }
             IN  /\ \E j \in 1 .. Len(alternate) :
                       /\ alternate[j] \in permitted
                       /\ EffectiveBandwidth(alternate[j][1]) = fIsoMaxPacketSize'
                 /\ fIsoMaxPacketSize' >= fMaxPayloadTransferSize'
                 /\ \A ep \in permitted :
                       EffectiveBandwidth(ep[1]) <= fIsoMaxPacketSize']_vars


----------------------------------------------------------------------------
(* Further properties of the negotiation (specification SpecTransport) and
   of the deframer (specification Spec). *)

(* C21: whenever a negotiation sends a commit SET_CUR, the block it sends
   is the block the camera returned in the probe GET_CUR of that
   negotiation, and not the block of the request. *)
C21_CommitSendsEchoedBlock ==
    [][(UVCCamDevice_StartTransfer /\ thist'.commit # <<>>)
          => /\ thist'.commit = thist'.echo
             /\ thist'.commit # ProbeRequest]_vars

(* C23: a Write of a malformed packet (fewer than 2 bytes, header length
   below 2 or beyond the packet) returns the packet length, not an error,
   and publishes nothing. *)
C23_MalformedPacketDropped ==
    (last.op = "Write" /\ ~HeaderValid(last.buf))
      => last.ret = Len(last.buf) /\ last.pub = <<>>

(* C24: the first packet written after construction or after a Flush does
   not count as a FID change, whatever its FID bit is. *)
C24_FirstPacketSetsFidOnly ==
    [][(SeqWrite /\ (nWrites = 0 \/ last.op = "Flush"))
          => fFIDChanges' = fFIDChanges]_vars

(* C25: a Write whose packet has a FID bit other than the current one, and
   before which no payload was received since the last frame boundary,
   places no empty frame on the ready queue. *)
C25_NoEmptyFrameFromFidToggle ==
    (/\ last.op = "Write"
     /\ HeaderValid(last.buf)
     /\ FidBit(last.buf) # last.fid0
     /\ last.accum0 = <<>>)
      => \A i \in 1 .. Len(last.pub) : last.pub[i] # <<>>

C25_Witness ==
    /\ last.op = "Write"
    /\ HeaderValid(last.buf)
    /\ PayloadSize(last.buf) = 0
    /\ FidBit(last.buf) # last.fid0
    /\ last.accum0 = <<>>
    /\ nWrites >= 2
    /\ last.pub = <<>>
    /\ last.qlen0 = Len(fFrames)

----------------------------------------------------------------------------
(* Part 4: the error histogram and the recovery recommendation.  A caller
   records the result of every transfer with RecordTransferResult and asks
   for a recommendation with LogRecoveryRecommendation, in any order. *)

(* usb_error_type and error_recovery_action *)
USB_ERROR_NONE == 0
USB_ERROR_TIMEOUT == 1
USB_ERROR_STALL == 2
USB_ERROR_CRC == 3
USB_ERROR_OVERFLOW == 4
USB_ERROR_DISCONNECTED == 5
USB_ERROR_UNKNOWN == 6
USB_ERROR_TYPE_COUNT == 7
RECOVERY_NONE == 0
RECOVERY_RETRY == 1
RECOVERY_RESET_ENDPOINT == 2
RECOVERY_REDUCE_BANDWIDTH == 3
RECOVERY_RESTART_TRANSFER == 4
RECOVERY_DEVICE_RESET == 5
RECOVERY_FATAL == 6

(* error_recovery_config::Reset: error_rate_action is 0.10f, held here in
   percent, and consecutive_errors_max. *)
error_rate_action == 10
consecutive_errors_max == 20

(* Bounds of part 4: at most MaxTransfers transfers are recorded, and the
   run of evaluations with an error stops at MaxConsecutive. *)
MaxTransfers == 10
MaxConsecutive == 21

(* error_recovery_config::GetRecommendedAction *)
GetRecommendedAction(error) ==
    IF error = USB_ERROR_NONE THEN RECOVERY_NONE
    ELSE IF error = USB_ERROR_TIMEOUT THEN RECOVERY_RETRY
    ELSE IF error = USB_ERROR_STALL THEN RECOVERY_RESET_ENDPOINT
    ELSE IF error = USB_ERROR_CRC THEN RECOVERY_RETRY
    ELSE IF error = USB_ERROR_OVERFLOW THEN RECOVERY_REDUCE_BANDWIDTH
    ELSE IF error = USB_ERROR_DISCONNECTED THEN RECOVERY_FATAL
    ELSE RECOVERY_RETRY

(* CamDevice::EvaluateErrorRecovery: the action returned, given the value
   of consecutive_errors after its update.  errorRate is
   GetTotalErrorRate(), the float quotient totalErrors / total_transfers (0
   without transfers).  With the counts of the model the quotient is above
   the float 0.10f exactly when 100 * totalErrors is above
   10 * total_transfers: the float division is correctly rounded and so
   gives 0.10f itself for a ratio of one tenth. *)
EvaluateErrorRecovery(error, consecutive) ==
    LET action == GetRecommendedAction(error)
        rateAbove == /\ fErrorHistogram # 0
                     /\ 100 * errorCounts > error_rate_action * fErrorHistogram
        escalated == IF rateAbove
                        /\ action \in {RECOVERY_RETRY, RECOVERY_RESET_ENDPOINT}
                     THEN RECOVERY_RESTART_TRANSFER ELSE action
    IN  IF consecutive >= consecutive_errors_max
           /\ escalated < RECOVERY_RESTART_TRANSFER /\ escalated # RECOVERY_FATAL
        THEN RECOVERY_RESTART_TRANSFER ELSE escalated

(* CamDevice::LogRecoveryRecommendation, the caller of
   EvaluateErrorRecovery. *)
LogRecoveryRecommendation ==
    /\ \E error \in 0 .. USB_ERROR_TYPE_COUNT - 1 :
          /\ error # USB_ERROR_NONE => consecutive_errors < MaxConsecutive
          /\ consecutive_errors' = IF error # USB_ERROR_NONE
                                   THEN consecutive_errors + 1 ELSE 0
          /\ rlast' = [error |-> error,
                       action |-> EvaluateErrorRecovery(error, consecutive_errors')]
    /\ UNCHANGED <<dfVars, fVideoFrame, streamVars, camera, env, hbVars, probeVars,
                   fIsoMaxPacketSize, consecutiveFailures, countVars, genFailures,
                   thist, errorCounts, fFramePool, heap, f,
                   fAudioRingBuffer, fAudioRingHead, fAudioRingTail,
                   fAudioTransferRunning, apump, areader, actl>>

(* CamDevice::RecordTransferResult with usb_error_histogram::RecordError,
   RecordPacketError and RecordPacketSuccess. *)
RecordTransferResult ==
    /\ fErrorHistogram < MaxTransfers
    /\ \E error \in 0 .. USB_ERROR_TYPE_COUNT - 1 :
          /\ fErrorHistogram' = fErrorHistogram + 1
          /\ errorCounts' = IF error # USB_ERROR_NONE THEN errorCounts + 1
                            ELSE errorCounts
          /\ fPacketErrorCount' = IF error # USB_ERROR_NONE
                                  THEN fPacketErrorCount + 1 ELSE fPacketErrorCount
          /\ fPacketSuccessCount' = IF error # USB_ERROR_NONE
                                    THEN fPacketSuccessCount
                                    ELSE fPacketSuccessCount + 1
    /\ UNCHANGED <<dfVars, fVideoFrame, streamVars, camera, env, hbVars, probeVars,
                   fIsoMaxPacketSize, consecutiveFailures, fLastPacketSuccessCount,
                   fLastPacketErrorCount, fEvalWindowPackets, fEvalWindowErrors,
                   genFailures, thist, consecutive_errors, rlast, fFramePool,
                   heap, f,
                   fAudioRingBuffer, fAudioRingHead, fAudioRingTail,
                   fAudioTransferRunning, apump, areader, actl>>

(* Specification SpecRecovery: the device as constructed, transfers
   recorded and recommendations asked for at will. *)
SpecRecovery ==
    Init /\ [][RecordTransferResult \/ LogRecoveryRecommendation]_vars

(* C22: whenever the error passed to EvaluateErrorRecovery has the default
   action Retry and either the error rate of the histogram is at or above
   10% or consecutive_errors (the call's own error counted) is at or above
   20, the action returned is RestartTransfer. *)
C22_RetryEscalatedAtThresholds ==
    [][(/\ LogRecoveryRecommendation
        /\ rlast'.error # 0 - 1
        /\ GetRecommendedAction(rlast'.error) = RECOVERY_RETRY
        /\ \/ (fErrorHistogram # 0 /\ 100 * errorCounts >= 10 * fErrorHistogram)
           \/ consecutive_errors' >= 20)
          => rlast'.action = RECOVERY_RESTART_TRANSFER]_vars

----------------------------------------------------------------------------
(* Part 5: the frame buffers as objects.  A CamFrame is a positive number,
   0 is the NULL pointer; fCurrentFrame, fFrames, fFramePool and the
   consumer's f hold such numbers here, and fInputBuffer is <<>> or one
   byte for "not empty".  The pump thread is "pump1", the consumer (the
   delivery thread in UVCCamDevice::FillFrameBuffer) is "gen" and the thread
   that flushes (UVCCamDevice::SetParameterValue) is "ctl".  A section under
   CamDeframer::fLocker that does not span steps is one step, taken while
   nobody holds the lock; what runs without the lock is a step of its own. *)

CAMDEFRAMER_FRAME_POOL_SIZE == 12

(* Bounds of part 5: the pump starts no Write once MaxFrames frames were
   completed or MaxDrops packets dropped for a full queue, there are at most
   MaxCalls calls of WaitFrame, DropFrame and Flush together, and callers
   outside the deframer hand at most MaxForeign frames of their own to
   RecycleFrame. *)
MaxFrames == 9
MaxDrops == 12
MaxCalls == 3
MaxForeign == 17

(* new CamFrame(): an object at an address that nothing points to. *)
NewFrame ==
    LET used == heap \cup {fCurrentFrame, f}
                   \cup { fFrames[i] : i \in 1 .. Len(fFrames) }
                   \cup { fFramePool[i] : i \in 1 .. Len(fFramePool) }
    IN  CHOOSE n \in 1 .. Cardinality(used) + 1 : n \notin used

(* A mutation of the queue test: one frame more is let in. *)
C26_RoomForOneMore == Len(fFrames) < MAXFRAMEBUF + 1

(* A mutation of the queue test: no limit. *)
C27_AlwaysRoom == TRUE

(* UVCDeframer::Write, lines 213 and 241: the test on the queue before a
   frame is allocated. *)
QueueHasRoom == Len(fFrames) < MAXFRAMEBUF

(* A mutation of the pool test: the pool takes a frame when it holds
   CAMDEFRAMER_FRAME_POOL_SIZE already. *)
C29_RoomWhenFull == Len(fFramePool) <= CAMDEFRAMER_FRAME_POOL_SIZE

(* CamDeframer::RecycleFrame, line 315: the test on the pool. *)
PoolHasRoom == Len(fFramePool) < CAMDEFRAMER_FRAME_POOL_SIZE

(* CamDeframer::AllocFrame: the last frame of the pool, or a new one. *)
PoolAllocFrame ==
    IF Len(fFramePool) > 0
    THEN [frame |-> fFramePool[Len(fFramePool)],
          pool |-> SubSeq(fFramePool, 1, Len(fFramePool) - 1), heap |-> heap]
    ELSE [frame |-> NewFrame, pool |-> fFramePool, heap |-> heap \cup {NewFrame}]

(* CamDeframer::RecycleFrame(frame), frame not NULL, in a heap h. *)
RecycleFrame(frame, h) ==
    IF PoolHasRoom
    THEN [pool |-> Append(fFramePool, frame), heap |-> h]
    ELSE [pool |-> fFramePool, heap |-> h \ {frame}]

(* What no step of part 5 changes. *)
poolFrame == <<fIsMJPEG, fID, fExpectedFrameSize, fFixedBuffer, fFIDChanges, nWrites,
               accum,
               fVideoFrame, op, fLocker, fTransferEnabled, fPumpThread, waitFor,
               fIsoIn, fCurrentVideoAlternate, fDevice, attached, fRunning,
               fCurrentResolutionLevel, fTargetResolutionLevel, fFallbackActive,
               fFallbackWarningShown, fEvalWindowStartTime, fStableStartTime,
               fExpectedMJPEGMinSize, fSelectedResolutionIndex, hist, camera, env,
               hbVars, probeVars, fIsoMaxPacketSize, consecutiveFailures, countVars,
               genFailures, thist, errorCounts, consecutive_errors, rlast,
               fAudioRingBuffer, fAudioRingHead, fAudioRingTail,
               fAudioTransferRunning, apump, areader, actl>>

(* The deframer and its threads as constructed, the format negotiated.
   last is history only:
     plain     no frame was taken, dropped or flushed so far;
     taken     the number of calls of WaitFrame that acquired the semaphore;
     flushes   the number of calls of Flush;
     dropped   the number of calls of DropFrame;
     foreign   the number of frames callers outside the deframer handed to
               RecycleFrame. *)
InitPool ==
    /\ fIsMJPEG \in BOOLEAN
    /\ fExpectedFrameSize = IF fIsMJPEG THEN 0 ELSE 8
    /\ fID = 0
    /\ fFixedBuffer = <<>>
    /\ fInputBuffer = <<>>
    /\ fCurrentFrame = 1
    /\ fFrames = <<>>
    /\ fFrameSem = 0
    /\ fFIDChanges = 0
    /\ fQueueOverflows = 0
    /\ fFramesCompleted = 0
    /\ nWrites = 0
    /\ accum = <<>>
    /\ last = [plain |-> TRUE, taken |-> 0, flushes |-> 0, dropped |-> 0,
               foreign |-> 0]
    /\ fVideoFrame = FrameList[1]
    /\ pc = [t \in Threads |-> IF t \in Pumps THEN "free"
                                ELSE IF t = "gen" THEN "wait" ELSE "idle"]
    /\ op = [t \in {"ctl", "gen"} |-> "none"]
    /\ fLocker = [owner |-> "none", count |-> 0]
    /\ fDeframerLocker = "none"
    /\ fTransferEnabled = 1
    /\ fPumpThread = "pump1"
    /\ waitFor = [t \in Callers |-> "none"]
    /\ fIsoIn = TRUE
    /\ fCurrentVideoAlternate = 0
    /\ fDevice = TRUE
    /\ attached = TRUE
    /\ fRunning = TRUE
    /\ fCurrentResolutionLevel = 0
    /\ fTargetResolutionLevel = 0
    /\ fFallbackActive = FALSE
    /\ fFallbackWarningShown = FALSE
    /\ fEvalWindowStartTime = 0
    /\ fStableStartTime = 0
    /\ fExpectedMJPEGMinSize = 0
    /\ fSelectedResolutionIndex = 0
    /\ hist = [streaming |-> TRUE, level0 |-> 0 - 1, stable |-> FALSE,
                warnings |-> 0]
    /\ InitTransportFields
    /\ camera = TheCamera
    /\ env = "none"

(* UVCDeframer::Write of a packet with payload, by the pump thread.  The
   packet is valid; whether its FID bit differs from fID and whether it
   completes the frame (EOF, or the expected size reached) is the packet's. *)
PoolWrite ==
    /\ \/ \* lines 163-237: the FID changed and MJPEG data is buffered
          /\ pc["pump1"] = "free"
          /\ fFramesCompleted < MaxFrames /\ fQueueOverflows < MaxDrops
          /\ fExpectedFrameSize = 0 /\ fInputBuffer # <<>>
          /\ fDeframerLocker = "none"
          /\ LET a == IF fCurrentFrame = 0 /\ QueueHasRoom
                      THEN PoolAllocFrame
                      ELSE [frame |-> fCurrentFrame, pool |-> fFramePool, heap |-> heap]
             IN  /\ fQueueOverflows' = IF Len(fFrames) >= MAXFRAMEBUF
                                       THEN fQueueOverflows + 1 ELSE fQueueOverflows
                 /\ fFramePool' = a.pool
                 /\ heap' = a.heap
                 /\ IF a.frame # 0
                    THEN /\ fFramesCompleted' = fFramesCompleted + 1
                         /\ fFrames' = Append(fFrames, a.frame)
                         /\ fFrameSem' = fFrameSem + 1
                    ELSE UNCHANGED <<fFramesCompleted, fFrames, fFrameSem>>
          /\ fCurrentFrame' = 0
          /\ fInputBuffer' = <<>>
          /\ pc' = [pc EXCEPT !["pump1"] = "alloc"]
          /\ UNCHANGED <<fDeframerLocker, f, last>>
       \/ \* lines 239-358: a frame is allocated unless the queue is full,
          \* the payload is copied and the frame is or is not complete
          /\ \/ pc["pump1"] = "alloc"
             \/ /\ pc["pump1"] = "free"
                /\ fFramesCompleted < MaxFrames /\ fQueueOverflows < MaxDrops
          /\ fCurrentFrame = 0 => fDeframerLocker = "none"
          /\ IF fCurrentFrame = 0 /\ ~QueueHasRoom
             THEN \* lines 244-246: dropped
                  /\ fQueueOverflows' = fQueueOverflows + 1
                  /\ pc' = [pc EXCEPT !["pump1"] = "free"]
                  /\ UNCHANGED <<fCurrentFrame, fFramePool, heap, fInputBuffer,
                                 fFramesCompleted>>
             ELSE LET a == IF fCurrentFrame = 0 THEN PoolAllocFrame
                           ELSE [frame |-> fCurrentFrame, pool |-> fFramePool,
                                 heap |-> heap]
                  IN  /\ fCurrentFrame' = a.frame
                      /\ fFramePool' = a.pool
                      /\ heap' = a.heap
                      /\ fInputBuffer' = IF fExpectedFrameSize = 0 THEN <<0>>
                                         ELSE fInputBuffer
                      /\ \E frameComplete \in BOOLEAN :
                            IF frameComplete
                            THEN /\ fFramesCompleted' = fFramesCompleted + 1
                                 /\ pc' = [pc EXCEPT !["pump1"] = "add"]
                            ELSE /\ fFramesCompleted' = fFramesCompleted
                                 /\ pc' = [pc EXCEPT !["pump1"] = "free"]
                      /\ UNCHANGED fQueueOverflows
          /\ UNCHANGED <<fFrames, fFrameSem, fDeframerLocker, f, last>>
       \/ \* line 427, without the lock: fFrames.AddItem(fCurrentFrame)
          /\ pc["pump1"] = "add"
          /\ fFrames' = Append(fFrames, fCurrentFrame)
          /\ pc' = [pc EXCEPT !["pump1"] = "sem"]
          /\ UNCHANGED <<fCurrentFrame, fFrameSem, fQueueOverflows, fFramesCompleted,
                         fInputBuffer, last, fDeframerLocker, fFramePool, heap, f>>
       \/ \* line 428: release_sem(fFrameSem)
          /\ pc["pump1"] = "sem"
          /\ fFrameSem' = fFrameSem + 1
          /\ pc' = [pc EXCEPT !["pump1"] = "null"]
          /\ UNCHANGED <<fCurrentFrame, fFrames, fQueueOverflows, fFramesCompleted,
                         fInputBuffer, last, fDeframerLocker, fFramePool, heap, f>>
       \/ \* lines 429-435: fCurrentFrame = NULL, the buffers reset, return
          /\ pc["pump1"] = "null"
          /\ fCurrentFrame' = 0
          /\ fInputBuffer' = <<>>
          /\ pc' = [pc EXCEPT !["pump1"] = "free"]
          /\ UNCHANGED <<fFrames, fFrameSem, fQueueOverflows, fFramesCompleted,
                         last, fDeframerLocker, fFramePool, heap, f>>
    /\ UNCHANGED poolFrame

(* The consumer: UVCCamDevice::FillFrameBuffer with CamDeframer::WaitFrame,
   GetFrame and RecycleFrame, and CamDeframer::DropFrame. *)
PoolConsume ==
    /\ \/ \* WaitFrame: the semaphore is acquired
          /\ pc["gen"] = "wait"
          /\ last.taken + last.dropped + last.flushes < MaxCalls
          /\ fFrameSem > 0
          /\ fFrameSem' = fFrameSem - 1
          /\ pc' = [pc EXCEPT !["gen"] = "get"]
          /\ last' = [last EXCEPT !.taken = last.taken + 1]
          /\ UNCHANGED <<fFrames, f, fFramePool, heap>>
       \/ \* GetFrame
          /\ pc["gen"] = "get"
          /\ fDeframerLocker = "none"
          /\ IF Len(fFrames) > 0
             THEN /\ f' = Head(fFrames)
                  /\ fFrames' = Tail(fFrames)
                  /\ pc' = [pc EXCEPT !["gen"] = "fill"]
                  /\ last' = [last EXCEPT !.plain = FALSE]
             ELSE \* ENOENT
                  /\ pc' = [pc EXCEPT !["gen"] = "wait"]
                  /\ UNCHANGED <<f, fFrames, last>>
          /\ UNCHANGED <<fFrameSem, fFramePool, heap>>
       \/ \* the frame is converted and recycled: RecycleFrame(f)
          /\ pc["gen"] = "fill"
          /\ fDeframerLocker = "none"
          /\ LET r == RecycleFrame(f, heap)
             IN  /\ fFramePool' = r.pool
                 /\ heap' = r.heap
          /\ f' = 0
          /\ pc' = [pc EXCEPT !["gen"] = "wait"]
          /\ UNCHANGED <<fFrames, fFrameSem, last>>
       \/ \* DropFrame
          /\ pc["gen"] = "wait"
          /\ last.taken + last.dropped + last.flushes < MaxCalls
          /\ fDeframerLocker = "none"
          /\ Len(fFrames) > 0
          /\ fFrames' = Tail(fFrames)
          /\ heap' = heap \ {Head(fFrames)}
          /\ last' = [last EXCEPT !.plain = FALSE, !.dropped = last.dropped + 1]
          /\ UNCHANGED <<pc, fFrameSem, f, fFramePool>>
    /\ UNCHANGED <<fCurrentFrame, fQueueOverflows, fFramesCompleted, fInputBuffer,
                   fDeframerLocker>>
    /\ UNCHANGED poolFrame

(* A caller outside the deframer hands a frame of its own to
   RecycleFrame, which is public. *)
PoolRecycleForeign ==
    /\ last.foreign < MaxForeign
    /\ fDeframerLocker = "none"
    /\ LET r == RecycleFrame(NewFrame, heap \cup {NewFrame})
       IN  /\ fFramePool' = r.pool
           /\ heap' = r.heap
           /\ last' = [last EXCEPT !.foreign = last.foreign + 1]
    /\ UNCHANGED <<pc, fCurrentFrame, fFrames, fFrameSem, fQueueOverflows,
                   fFramesCompleted, fInputBuffer, fDeframerLocker, f>>
    /\ UNCHANGED poolFrame

(* UVCDeframer::Flush with CamDeframer::Flush, by the control thread.  The
   use of a deleted fCurrentFrame ends the program or goes unnoticed. *)
PoolFlush ==
    /\ \/ \* the lock is taken and every queued frame deleted
          /\ pc["ctl"] = "idle"
          /\ last.taken + last.dropped + last.flushes < MaxCalls
          /\ fDeframerLocker = "none"
          /\ fDeframerLocker' = "ctl"
          /\ heap' = heap \ { fFrames[i] : i \in 1 .. Len(fFrames) }
          /\ fFrames' = <<>>
          /\ pc' = [pc EXCEPT !["ctl"] = "reset"]
          /\ last' = [last EXCEPT !.plain = FALSE, !.flushes = last.flushes + 1]
          /\ UNCHANGED <<fFrameSem, fInputBuffer>>
       \/ \* fCurrentFrame, if not NULL, is reset: Seek and SetSize
          /\ pc["ctl"] = "reset"
          /\ \/ pc' = [pc EXCEPT !["ctl"] = "drain"]
             \/ /\ fCurrentFrame # 0 /\ fCurrentFrame \notin heap
                /\ pc' = [t \in Threads |-> "crashed"]
          /\ UNCHANGED <<fDeframerLocker, heap, fFrames, fFrameSem, fInputBuffer,
                         last>>
       \/ \* the semaphore is drained, the lock released, and
          \* UVCDeframer::Flush resets its buffers
          /\ pc["ctl"] = "drain"
          /\ fFrameSem' = 0
          /\ fDeframerLocker' = "none"
          /\ fInputBuffer' = <<>>
          /\ pc' = [pc EXCEPT !["ctl"] = "idle"]
          /\ UNCHANGED <<heap, fFrames, last>>
    /\ UNCHANGED <<fCurrentFrame, fQueueOverflows, fFramesCompleted, fFramePool, f>>
    /\ UNCHANGED poolFrame

(* Specification SpecPool *)
SpecPool == InitPool /\ [][PoolWrite \/ PoolConsume \/ PoolFlush]_vars

(* Specification SpecPoolApi: no packet arrives; callers outside the
   deframer hand frames to RecycleFrame and the control thread flushes. *)
SpecPoolApi == InitPool /\ [][PoolRecycleForeign \/ PoolFlush]_vars

(* C26: a step of Write taken with the ready queue at MAXFRAMEBUF frames
   and no frame being filled publishes nothing (the queue and the semaphore
   stay as they are and no frame is allocated), increments fQueueOverflows
   and goes on without waiting for room: from the allocation of lines
   239-248 the call returns. *)
C26_FullQueueDropsFrameStart ==
    [][(/\ PoolWrite
        /\ pc["pump1"] \in {"free", "alloc"}
        /\ fCurrentFrame = 0
        /\ Len(fFrames) >= MAXFRAMEBUF)
          => /\ fFrames' = fFrames
             /\ fFrameSem' = fFrameSem
             /\ fCurrentFrame' = 0
             /\ fQueueOverflows' > fQueueOverflows
             /\ pc'["pump1"] \in {"alloc", "free"}
             /\ pc["pump1"] = "alloc" => pc'["pump1"] = "free"]_vars

C26_Witness ==
    /\ Len(fFrames) = MAXFRAMEBUF
    /\ fFrameSem = MAXFRAMEBUF
    /\ fCurrentFrame = 0
    /\ pc["pump1"] = "free"
    /\ fQueueOverflows = 1

(* C27: the ready queue never holds more than MAXFRAMEBUF = 8 frames,
   whatever the interleaving of the pump's Write with GetFrame, DropFrame
   and Flush; and while no frame was taken, dropped or flushed every
   completed frame is queued and packets are dropped only with 8 frames
   queued (n arrivals leave min(n, 8) queued and the others dropped: 20
   arrivals leave 8 queued and 12 dropped). *)
C27_QueueAtMostQmax ==
    /\ Len(fFrames) <= MAXFRAMEBUF
    /\ last.plain =>
          /\ Len(fFrames) + (IF pc["pump1"] = "add" THEN 1 ELSE 0) = fFramesCompleted
          /\ fQueueOverflows > 0 => Len(fFrames) = MAXFRAMEBUF
          /\ fFramesCompleted + fQueueOverflows = 20
                => Len(fFrames) = 8 /\ fQueueOverflows = 12

C27_Witness ==
    /\ Len(fFrames) = MAXFRAMEBUF
    /\ last.taken > 0
    /\ last.flushes > 0
    /\ last.dropped > 0

(* C28: every frame that exists is in exactly one of the pool, the
   deframer's fCurrentFrame, the ready queue and the consumer's hands, and
   none of these holds a frame that was deleted. *)
C28_ExactlyOneOwner ==
    LET places == <<fCurrentFrame, f>> \o fFrames \o fFramePool
        held == { places[i] : i \in 1 .. Len(places) } \ {0}
    IN  /\ held = heap
        /\ \A i, j \in 1 .. Len(places) :
              (i # j /\ places[i] # 0) => places[i] # places[j]

(* C29: the pool never holds more than CAMDEFRAMER_FRAME_POOL_SIZE = 12
   frames: a RecycleFrame with 12 frames pooled deletes the frame it is
   given and leaves the pool as it is, so that of 13 or more frames handed
   in exactly 12 are pooled. *)
C29_PoolAtMostPmax ==
    [][/\ Len(fFramePool') <= 12
       /\ (PoolRecycleForeign /\ Len(fFramePool) = 12)
             => fFramePool' = fFramePool /\ heap' = heap
       /\ (PoolRecycleForeign /\ last'.foreign > 12)
             => Len(fFramePool') = 12]_vars

C29_Witness ==
    /\ last.foreign = 17
    /\ Len(fFramePool) = CAMDEFRAMER_FRAME_POOL_SIZE
    /\ Cardinality(heap) = CAMDEFRAMER_FRAME_POOL_SIZE + 1

-----------------------------------------------------------------------------
(* Part 6: the audio ring buffer.

   The ring is fAudioRingBuffer with fAudioRingHead, written by the audio
   pump thread only, and fAudioRingTail, written by ReadAudioData only; both
   are read and written with atomic_get and atomic_set, and every such
   access to the other thread's index is a step of its own.  A byte of the
   ring is the number of the committed byte it holds (the first byte the
   pump commits is 1), and 0 as malloc left it. *)

(* fAudioRingSize is 65536 in StartAudioTransfer (line 1776); the model's
   ring has 8 bytes.  The pump looks at MaxAudioPackets packets at most and
   ReadAudioData finds bytes to copy MaxReads times at most. *)
fAudioRingSize == 8
MaxAudioPackets == 3
MaxReads == 3

(* ReadAudioData, lines 1879-1882: the bytes available to the reader. *)
RingAvailable(head, tail) ==
    IF head >= tail THEN head - tail ELSE fAudioRingSize - tail + head

(* A mutation of the free space: the byte that keeps head from catching up
   with tail is given away. *)
C30_SpaceNoGap(head, tail) ==
    IF head >= tail THEN fAudioRingSize - head + tail ELSE tail - head

(* A mutation of the free space: the branch for a head behind the tail is
   missing. *)
C32_SpaceIgnoresWrap(head, tail) == fAudioRingSize - head + tail - 1

(* AudioPumpThread, lines 2203-2206: the free space the producer computes. *)
RingSpace(head, tail) ==
    IF head >= tail THEN fAudioRingSize - head + tail - 1 ELSE tail - head - 1

(* UVCCamDevice::StartAudioTransfer, the path on which everything succeeds:
   the ring is allocated, head and tail are zeroed, and the pump thread is
   spawned.  It is called when the pump thread of an earlier transfer is
   gone. *)
StartAudioTransfer ==
    /\ actl = "idle"
    /\ ~fAudioTransferRunning
    /\ apump.pc = "none"
    /\ fAudioRingBuffer' = [k \in 1 .. fAudioRingSize |-> 0]
    /\ fAudioRingHead' = 0
    /\ fAudioRingTail' = 0
    /\ fAudioTransferRunning' = TRUE
    /\ apump' = [apump EXCEPT !.pc = "loop"]
    /\ UNCHANGED <<areader, actl>>
    /\ UNCHANGED <<dfVars, fVideoFrame, streamVars, camera, env, hbVars, probeVars,
                   fIsoMaxPacketSize, consecutiveFailures, countVars, genFailures,
                   thist, errorCounts, consecutive_errors, rlast, fFramePool,
                   heap, f>>

(* UVCCamDevice::StopAudioTransfer: the flag is cleared; then the pump
   thread is waited for, for 5 seconds at most, and the ring is freed. *)
StopAudioTransfer ==
    /\ \/ \* lines 1832-1842
          /\ actl = "idle"
          /\ fAudioTransferRunning
          /\ fAudioTransferRunning' = FALSE
          /\ actl' = "join"
          /\ UNCHANGED fAudioRingBuffer
       \/ \* lines 1845-1855: the thread has exited, or the timeout expires
          /\ actl = "join"
          /\ fAudioRingBuffer' = <<>>
          /\ actl' = "idle"
          /\ UNCHANGED fAudioTransferRunning
    /\ UNCHANGED <<fAudioRingHead, fAudioRingTail, apump, areader>>
    /\ UNCHANGED <<dfVars, fVideoFrame, streamVars, camera, env, hbVars, probeVars,
                   fIsoMaxPacketSize, consecutiveFailures, countVars, genFailures,
                   thist, errorCounts, consecutive_errors, rlast, fFramePool,
                   heap, f>>

(* UVCCamDevice::AudioPumpThread: the loop of transfers, and for each
   packet of a transfer the test for space, the copy and the new head. *)
AudioPumpThread ==
    /\ \/ \* line 2125: while (fAudioTransferRunning), and a transfer
          /\ apump.pc = "loop"
          /\ apump' = [apump EXCEPT !.pc = IF fAudioTransferRunning THEN "pkt"
                                           ELSE "none"]
          /\ UNCHANGED <<fAudioRingBuffer, fAudioRingHead>>
       \/ \* lines 2190-2210: a packet with data; head and tail are read
          /\ apump.pc = "pkt"
          /\ apump.packets < MaxAudioPackets
          /\ \E packetLen \in {1, 3, fAudioRingSize - 1} :
                apump' = IF RingSpace(fAudioRingHead, fAudioRingTail) < packetLen
                         THEN [apump EXCEPT !.packets = @ + 1]
                         ELSE [apump EXCEPT !.packets = @ + 1, !.pc = "copy",
                                            !.head = fAudioRingHead,
                                            !.packetLen = packetLen]
          /\ UNCHANGED <<fAudioRingBuffer, fAudioRingHead>>
       \/ \* the last packet of the transfer was looked at
          /\ apump.pc = "pkt"
          /\ apump' = [apump EXCEPT !.pc = "loop"]
          /\ UNCHANGED <<fAudioRingBuffer, fAudioRingHead>>
       \/ \* lines 2214-2221: the copy into the ring, in one or two pieces
          /\ apump.pc = "copy"
          /\ LET head == apump.head
                 packetLen == apump.packetLen
                 firstChunk == fAudioRingSize - head
                 byte(k) ==
                     IF firstChunk >= packetLen
                     THEN IF k >= head /\ k < head + packetLen
                          THEN apump.sent + (k - head) + 1
                          ELSE fAudioRingBuffer[k + 1]
                     ELSE IF k >= head
                          THEN apump.sent + (k - head) + 1
                          ELSE IF k < packetLen - firstChunk
                               THEN apump.sent + firstChunk + k + 1
                               ELSE fAudioRingBuffer[k + 1]
             IN  IF fAudioRingBuffer = <<>>
                 THEN /\ apump' = [apump EXCEPT !.pc = "publish", !.uaf = TRUE]
                      /\ UNCHANGED fAudioRingBuffer
                 ELSE /\ fAudioRingBuffer' =
                            [k \in 1 .. fAudioRingSize |-> byte(k - 1)]
                      /\ apump' = [apump EXCEPT !.pc = "publish"]
          /\ UNCHANGED fAudioRingHead
       \/ \* line 2223: atomic_set(&fAudioRingHead, ...)
          /\ apump.pc = "publish"
          /\ fAudioRingHead' = (apump.head + apump.packetLen) % fAudioRingSize
          /\ apump' = [apump EXCEPT !.pc = "pkt", !.sent = @ + apump.packetLen,
                                    !.head = 0, !.packetLen = 0]
          /\ UNCHANGED fAudioRingBuffer
    /\ UNCHANGED <<fAudioRingTail, fAudioTransferRunning, areader, actl>>
    /\ UNCHANGED <<dfVars, fVideoFrame, streamVars, camera, env, hbVars, probeVars,
                   fIsoMaxPacketSize, consecutiveFailures, countVars, genFailures,
                   thist, errorCounts, consecutive_errors, rlast, fFramePool,
                   heap, f>>

(* UVCCamDevice::ReadAudioData(buffer, size): the wait for size bytes, the
   copy out of the ring and the new tail. *)
ReadAudioData ==
    /\ \/ \* line 1867: the call; without a ring it returns 0
          /\ areader.pc = "idle"
          /\ areader.reads < MaxReads
          /\ \E size \in {fAudioRingSize \div 2} :
                areader' = IF fAudioRingBuffer = <<>>
                           THEN areader
                           ELSE [areader EXCEPT !.pc = "poll",
                                                !.size = size]
          /\ UNCHANGED fAudioRingTail
       \/ \* lines 1875-1896: one round of the wait loop; with enough bytes,
          \* or when it is the last round, the amount to read is fixed.  The
          \* loop has 50 rounds at most (line 1872); the other threads take
          \* fewer steps than that, and rounds between which no other thread
          \* moves find the same bytes, so the rounds are not counted.
          /\ areader.pc = "poll"
          /\ LET available == RingAvailable(fAudioRingHead, fAudioRingTail)
                 toRead == IF available < areader.size THEN available
                           ELSE areader.size
             IN  \E lastRound \in BOOLEAN :
                    areader' =
                       IF available < areader.size /\ ~lastRound
                       THEN areader
                       ELSE IF available = 0
                       THEN [areader EXCEPT !.pc = "idle", !.size = 0]
                       ELSE [areader EXCEPT !.pc = "copy", !.reads = @ + 1,
                                            !.toRead = toRead,
                                            !.tail = fAudioRingTail]
          /\ UNCHANGED fAudioRingTail
       \/ \* lines 1898-1903: the copy out of the ring, in one or two pieces
          /\ areader.pc = "copy"
          /\ LET tail == areader.tail
                 toRead == areader.toRead
                 firstChunk == fAudioRingSize - tail
                 byte(i) == IF firstChunk >= toRead \/ i <= firstChunk
                            THEN fAudioRingBuffer[tail + i]
                            ELSE fAudioRingBuffer[i - firstChunk]
             IN  areader' =
                    IF fAudioRingBuffer = <<>>
                    THEN [areader EXCEPT !.pc = "publish", !.uaf = TRUE,
                                         !.out = [i \in 1 .. toRead |-> 0]]
                    ELSE [areader EXCEPT !.pc = "publish",
                                         !.out = [i \in 1 .. toRead |-> byte(i)]]
          /\ UNCHANGED fAudioRingTail
       \/ \* line 1905: atomic_set(&fAudioRingTail, ...), return toRead
          /\ areader.pc = "publish"
          /\ fAudioRingTail' = (areader.tail + areader.toRead) % fAudioRingSize
          /\ areader' = [areader EXCEPT !.pc = "idle", !.got = @ + areader.toRead,
                                        !.size = 0, !.toRead = 0, !.tail = 0,
                                        !.out = <<>>]
    /\ UNCHANGED <<fAudioRingBuffer, fAudioRingHead, fAudioTransferRunning, apump,
                   actl>>
    /\ UNCHANGED <<dfVars, fVideoFrame, streamVars, camera, env, hbVars, probeVars,
                   fIsoMaxPacketSize, consecutiveFailures, countVars, genFailures,
                   thist, errorCounts, consecutive_errors, rlast, fFramePool,
                   heap, f>>

(* The device as constructed, its video format MJPEG. *)
InitAudio ==
    /\ Init
    /\ fIsMJPEG = TRUE

(* Specification SpecAudio: the audio transfer is started and stopped, the
   pump thread and the reader run. *)
SpecAudio ==
    InitAudio /\ [][StartAudioTransfer \/ StopAudioTransfer \/ AudioPumpThread
                  \/ ReadAudioData]_vars

(* Specification SpecRing: one audio transfer; the pump thread and the
   reader run and the transfer is not stopped. *)
SpecRing ==
    InitAudio /\ [][StartAudioTransfer \/ AudioPumpThread \/ ReadAudioData]_vars

(* C30: while the ring exists, fAudioRingHead and fAudioRingTail are
   indices of the ring (0 <= head < capacity, 0 <= tail < capacity), and the
   bytes available to the reader plus the free space the producer computes
   plus 1 are the capacity; the amounts the two threads work with never
   exceed them. *)
C30_RingIndicesAndSpace ==
    fAudioRingBuffer # <<>> =>
       /\ fAudioRingHead \in 0 .. fAudioRingSize - 1
       /\ fAudioRingTail \in 0 .. fAudioRingSize - 1
       /\ RingAvailable(fAudioRingHead, fAudioRingTail)
             + RingSpace(fAudioRingHead, fAudioRingTail) + 1 = fAudioRingSize
       /\ RingAvailable(fAudioRingHead, fAudioRingTail) \in 0 .. fAudioRingSize - 1
       /\ RingSpace(fAudioRingHead, fAudioRingTail) \in 0 .. fAudioRingSize - 1

C30_Witness ==
    /\ fAudioRingBuffer # <<>>
    /\ fAudioRingHead = 2
    /\ fAudioRingTail = 4
    /\ RingAvailable(fAudioRingHead, fAudioRingTail) = 6
    /\ RingSpace(fAudioRingHead, fAudioRingTail) = 1
    /\ apump.sent = 10
    /\ areader.got = 4

(* C31: a packet longer than the free space of the ring is dropped whole:
   the step copies nothing, leaves head as it is and counts the overflow,
   that is, it changes something in the state of the program (the model's
   own count of packets aside). *)
C31_OverflowDroppedAndCounted ==
    [][(/\ AudioPumpThread
        /\ apump.pc = "pkt"
        /\ apump'.packets > apump.packets
        /\ apump'.pc = "pkt")
          => /\ fAudioRingBuffer' = fAudioRingBuffer
             /\ fAudioRingHead' = fAudioRingHead
             /\ [apump' EXCEPT !.packets = 0] # [apump EXCEPT !.packets = 0]]_vars

(* C32: the bytes between tail and head are the committed bytes the reader
   has not returned yet, in their order; every copy of ReadAudioData
   delivers the next bytes after those it returned before, none missing,
   none twice and none that the pump has not committed; and the pump
   writes only outside the bytes between tail and head. *)
C32_ReaderGetsCommittedBytes ==
    fAudioRingBuffer # <<>> =>
       LET available == RingAvailable(fAudioRingHead, fAudioRingTail)
       IN  /\ areader.got + available = apump.sent
           /\ \A i \in 0 .. available - 1 :
                 fAudioRingBuffer[((fAudioRingTail + i) % fAudioRingSize) + 1]
                    = areader.got + i + 1
           /\ areader.pc = "publish" =>
                 /\ areader.toRead <= available
                 /\ areader.out = [i \in 1 .. areader.toRead |-> areader.got + i]
           /\ apump.pc \in {"copy", "publish"} =>
                 apump.packetLen <= RingSpace(fAudioRingHead, fAudioRingTail)

C32_Witness ==
    /\ areader.pc = "publish"
    /\ areader.got > 0
    /\ apump.pc = "publish"
    /\ apump.head + apump.packetLen > fAudioRingSize

(* C40: neither the audio pump thread nor the thread in ReadAudioData
   copies to or from the ring after StopAudioTransfer has freed it: when
   the ring is freed the pump thread has exited and nobody is inside
   ReadAudioData. *)
C40_NoUseOfFreedRing ==
    /\ ~apump.uaf
    /\ ~areader.uaf
    /\ (fAudioRingBuffer = <<>> /\ actl = "idle")
          => apump.pc \in {"none", "loop"} /\ areader.pc = "idle"

(* C34: the count of the frame semaphore, with the count a WaitFrame has
   acquired and its GetFrame not yet used, never exceeds the number of
   frames in the ready queue: the GetFrame after a successful WaitFrame
   finds a frame. *)
C34_SemaphoreWithinQueue ==
    fFrameSem + (IF pc["gen"] = "get" THEN 1 ELSE 0) <= Len(fFrames)

(* C33: a consumer blocked in WaitFrame is released by every published
   frame and by a flush: Write raises the semaphore by one for each frame
   it publishes and not otherwise, and the step of Flush that ends with a consumer
   still waiting leaves the semaphore raised, so that the consumer returns
   without waiting out its timeout. *)
C33_WaiterReleased ==
    [][/\ PoolWrite
            => fFrameSem' - fFrameSem
                 = (IF \/ pc["pump1"] = "sem"
                       \/ pc["pump1"] = "free" /\ Len(fFrames') > Len(fFrames)
                    THEN 1 ELSE 0)
       /\ (PoolFlush /\ pc["ctl"] = "drain" /\ pc["gen"] = "wait")
            => fFrameSem' > 0]_vars

----------------------------------------------------------------------------
(* Specification SpecBacklog: the deframer of an uncompressed-only device
   streaming 2 x 1 frames (4 bytes each) whose consumer has fallen behind.
   The camera has sent MAXFRAMEBUF - 1 frames, each in one packet
   <<2, flags, 68, 85, 102>> with the EOF bit set and the FID bit
   alternating from 1, and none was taken: every frame was padded to 4
   bytes and queued.  Packets go on arriving and the consumer takes
   frames. *)
InitBacklog ==
    /\ InitStream
    /\ camera = TheCamera
    /\ env = "none"
    /\ fIsMJPEG = FALSE
    /\ fVideoFrame = fUncompressedFrames[2]
    /\ fExpectedFrameSize = fUncompressedFrames[2][1] * fUncompressedFrames[2][2] * 2
    /\ fID = (MAXFRAMEBUF - 1) % 2
    /\ fFixedBuffer = <<>>
    /\ fInputBuffer = <<>>
    /\ fCurrentFrame = NULL
    /\ fFrames = [i \in 1 .. MAXFRAMEBUF - 1 |-> PadTo(<<68, 85, 102>>, 4)]
    /\ fFrameSem = MAXFRAMEBUF - 1
    /\ fFIDChanges = MAXFRAMEBUF - 1
    /\ fQueueOverflows = 0
    /\ fFramesCompleted = MAXFRAMEBUF - 1
    /\ nWrites = 0
    /\ accum = <<>>
    /\ last = [op |-> "Init", buf |-> <<>>, ret |-> 0, pub |-> <<>>,
               fid0 |-> 0, exp |-> 0, accum0 |-> <<>>, qlen0 |-> 0]

SpecBacklog == InitBacklog /\ [][SeqWrite \/ SeqWaitGetFrame]_vars

(* C35: every frame a Write publishes in fixed-size mode holds the payload
   bytes received since the last frame boundary (the FID flip, or the
   completion of the frame before) at their offsets, cut at the expected
   size and followed only by the padding pattern; the bytes of packets
   dropped on a full queue count as received. *)
C35_FrameBytesAtOriginalOffsets ==
    (LastIsWrite /\ last.exp > 0 /\ last.pub # <<>>)
        => LET sinceFlip == IF FidBit(last.buf) # last.fid0 THEN <<>>
                            ELSE last.accum0
               received == sinceFlip \o Payload(last.buf)
               n == Min(Len(received), last.exp)
           IN  last.pub = <<PadTo(SubSeq(received, 1, n), last.exp)>>

(* C36: the deltas FillFrameBuffer adds to the evaluation window for a
   delivered frame are the packets the pump counted since the call before:
   as uint32 values they are at most the pump's current totals (a negative
   number stands for a uint32 above 2^31), also after a restart of the
   stream has zeroed the pump's counters. *)
C36_WindowDeltasWithinTotals ==
    [][FillFrameBufferStatistics
          => /\ fPacketSuccessCount - fLastPacketSuccessCount
                   \in 0 .. fPacketSuccessCount
             /\ fPacketErrorCount - fLastPacketErrorCount
                   \in 0 .. fPacketErrorCount]_vars

(* C37: the transfer-enabled flag is set only while a pump thread is live:
   whenever fTransferEnabled is 1 the pump thread spawned by StartTransfer
   has not ended, in particular not by leaving its loop on its own. *)
C37_EnabledOnlyWhilePumpLive ==
    fTransferEnabled = 1 => pc["pump1"] # "free"

(* C38: StopTransfer is run only by the owner of the device lock and gives
   the lock back as it found it.  The control thread's operations enter
   with one hold (their BAutolock) and the delivery thread enters with
   none: the step that begins StopTransfer is taken by the lock's owner,
   and after the fLocker.Lock() that ends it the control thread holds the
   lock once and the delivery thread does not hold it. *)
C38_StopKeepsHoldCount ==
    [][\A t \in {"ctl", "gen"} :
          /\ StopTransfer(t) => fLocker.owner = t
          /\ StopRelock(t)
                => (IF fLocker'.owner = t THEN fLocker'.count ELSE 0)
                      = (IF t = "ctl" THEN 1 ELSE 0)]_vars

(* C39: at most one video pump thread exists at any time: the two pump
   threads that StartTransfer can have spawned are never both alive. *)
C39_AtMostOnePump ==
    ~(pc["pump1"] # "free" /\ pc["pump2"] # "free")

============================================================================
